---- MODULE Spec2Model ----
(***************************************************************************)
(* A model of the charcoal threat-detection engine: the web scan job, the  *)
(* network rate limiter with its retry wrapper, and the amplification      *)
(* pipeline with the storage rows it writes.                               *)
(***************************************************************************)
EXTENDS Integers, Sequences, FiniteSets, TLC

(***************************************************************************)
(* Bounds of the model.                                                    *)
(***************************************************************************)
NumClients == 2         \* HTTP clients that may POST /api/scan
MaxScans == 2           \* background scan tasks ever spawned
NumTasks == 2           \* concurrent tasks sharing one RateLimiter
MaxRequests == 2        \* RateLimiter.max_requests of the modelled limiter
Window == 3             \* RateLimiter.window, in clock ticks (seconds)
MinDelay == 2           \* RateLimiter.min_delay, in clock ticks
QueueCap == 3           \* longest `requests` deque record_request may build
MaxRuns == 2            \* scans run one after another against the same database
Concurrency == 2        \* `concurrency` of buffer_unordered
NumProcs == 2           \* processes starting against the same PostgreSQL database
MaxStartups == 3        \* startups against one database
interval == 2           \* toxicity RateLimiter.interval (1 s), in clock ticks
MaxEvents == 6          \* longest list of triples handed to the pile-on detector
MaxStored == 5          \* most rows of amplification_events before the scan reads them
MaxHalfDays == 2        \* half days that pass while the events are stored

Min(a, b) == IF a < b THEN a ELSE b
Max(a, b) == IF a > b THEN a ELSE b

VARIABLES
    \* ---- web/scan_job.rs: ScanStatus behind Arc<RwLock<..>> ----
    running,            \* ScanStatus.running
    started_at,         \* ScanStatus.started_at is Some(..)
    progress_message,   \* ScanStatus.progress_message
    last_error,         \* ScanStatus.last_error ("none" for None)
    jobPc,              \* position of each spawned background task
    spawned,            \* number of tokio::spawn calls made by launch_scan
    response,           \* HTTP status last returned to each client (0: none yet)
    \* ---- bluesky/rate_limit.rs: RateLimiter and with_retry ----
    requests,           \* RateLimiter.requests: the age of each recorded Instant, oldest first
    last_request,       \* RateLimiter.last_request: the age of the Instant, or NoInstant
    taskPc,             \* where each task stands inside acquire() / with_retry()
    sleepLeft,          \* ticks left of the tokio::time::sleep a task is suspended in
    attempt,            \* with_retry: `attempt`
    retryResult,        \* with_retry: "none", "running", or what it returned: "ok" / "err"
    retryError,         \* with_retry: the error inside the returned Err(..)
    calls,              \* invocations of `operation` made by the current with_retry call
    backoffs,           \* backoff sleeps started by the current with_retry call
    lastOutcome,        \* outcome of the latest invocation of `operation`
    onlyRateLimited,    \* every invocation so far ended in a rate-limit error
    grantAges,          \* ages (<= Window) of the acquisitions acquire() has granted
    sinceGrant,         \* age of the latest grant, or NoInstant
    lastGap,            \* time between the two latest grants, or NoInstant
    \* ---- main.rs scan, constellation/client.rs, pipeline/amplification.rs ----
    pipePc,             \* where the running command (scan or sweep) stands
    command,            \* the command that ran last: "none", "scan" or "sweep"
    runNo,              \* ordinal of the current scan (stands for its timestamps)
    analyze_followers,  \* run(): analyze_followers
    query,              \* find_amplification_events: index of the next get_backlinks call
    events,             \* the Vec<AmplificationNotification> being built / processed
    seen_uris,          \* find_amplification_events: seen_uris
    eventIdx,           \* run(): position of `for event in &events`
    quoteIdx,           \* run(): position of `for event in &quote_events`
    pending,            \* stale followers the stream has not started to build
    in_progress,        \* builds inside buffer_unordered
    in_flight,          \* builds that were in progress at the latest poll of the stream
    arrived,            \* results yielded by stream.next() and not handled yet
    accounts_scored,    \* run(): accounts_scored
    \* ---- storage rows ----
    amplification_events, \* table amplification_events, in id order
    account_scores,     \* table account_scores: did -> row (age of scored_at in days)
                        \* or NoRow
    last_scan_at,       \* scan_state["last_scan_at"] (the run that set it, 0: unset)
    \* ---- what happened during the current scan ----
    stored,             \* indexes of the events whose row was inserted
    persisted,          \* accounts whose score was upserted
    selected,           \* accounts selected as stale
    selectedFresh,      \* accounts selected although their stored score was fresh
    staleReadFailed,    \* accounts whose is_score_stale lookup returned Err
    fetchedFor,         \* the events fetch_followers was called for
    started,            \* accounts whose build_profile was started
    arrivedOk,          \* accounts whose Ok(score) was yielded by the stream
    writeFailed,        \* accounts whose upsert_account_score returned Err
    skipped,            \* confined failures that were logged and skipped
    storageFailed,      \* a storage write returned Err
    analysed,           \* quote events whose follower analysis ran to its end
    \* ---- pipeline/sweep.rs run: its locals ----
    swIdx,              \* position of `for follower in &first_degree`
    first_degree,       \* first_degree
    swSeen,             \* seen
    second_degree_pool, \* second_degree_pool
    \* ---- db/postgres.rs run_migrations ----
    pgPc,               \* where each process stands in connect() / run_migrations()
    pgVersion,          \* the migration of the loop each process is at
    pgResult,           \* migration_result of each process
    pgLockHolder,       \* the session holding the advisory lock, or NoSession
    pgTableExists,      \* table schema_version exists
    pgSchema,           \* migrations whose schema objects are in the database
    pgRecorded,         \* rows of schema_version
    pgStartups,         \* startups so far
    pgLockedOn,         \* the session each process was granted the lock on
    pgUnlockedOn,       \* the session each process ran the unlock statement on
    pgRanRecorded,      \* migrations whose SQL was run although already recorded
    \* ---- db/schema.rs create_tables (SQLite) ----
    sqPc,               \* where create_tables stands
    sqVersion,          \* the run_migration call it is at
    sqTables,           \* the CREATE TABLE IF NOT EXISTS batch has run
    sqColumns,          \* migrations whose column is in the database
    sqRecorded,         \* rows of schema_version
    sqStartups,         \* startups so far
    sqDuplicateColumn,  \* migrations whose ALTER TABLE hit an existing column
    \* ---- toxicity/rate_limiter.rs: RateLimiter behind Arc<Mutex<..>> ----
    txLast,             \* inner.last_request: the age of the Instant, or NoInstant
    txPc,               \* where each caller stands inside acquire()
    txSleep,            \* ticks left of the sleep a caller is suspended in
    txSinceGrant,       \* age of the latest return of acquire(), or NoInstant
    txLastGap,          \* time between the two latest returns, or NoInstant
    \* ---- db/traits.rs Database: one opened database ----
    stBackend,          \* "none" until opened, then "sqlite" or "postgres"
    stScores,           \* table account_scores
    stFingerprint,      \* table topic_fingerprint (at most the row id = 1)
    stCall,             \* the latest call: operation, result, and a bit flipped per call
    stArg,              \* the argument of the latest call
    stReturned,         \* the rows the latest read returned
    \* ---- scoring/behavioral.rs detect_pile_on_participants ----
    poInput,            \* the slice of (did, uri, timestamp) triples
    poResult,           \* the returned set of dids
    poDone,             \* the detector has returned
    \* ---- the pile-on context of a scan ----
    poTable,            \* table amplification_events: did, post uri, detected_at
    poNow,              \* the clock of the database, in seconds
    poTuples,           \* what get_events_for_pile_on returned
    poDetected,         \* what the detector made of it
    \* ---- scoring/threat.rs and scoring/behavioral.rs: one account's score ----
    scInputs,           \* the toxicity and topic overlap handed to compute_threat_score
    scThreat,           \* the threat score it returned
    scSignals,          \* the behavioral signals handed to apply_behavioral_modifier
    scFinal,            \* the (score, benign gate) it returned
    \* ---- scoring/profile.rs: build_profile per account ----
    bpPc,               \* where build_profile and its caller are, per account
    bpPosts,            \* the size of the fetched sample
    bpToxicity,         \* the average toxicity of the sample
    bpResult,           \* the AccountScore build_profile returned
    bpScorerCalls,      \* accounts whose posts were handed to score_batch
    bpFormulaCalls,     \* accounts handed to compute_threat_score
    bpTable,            \* account_scores as written by the caller
    \* ---- pure functions: one call and what it returned ----
    pfCall,             \* the function called and its arguments
    pfResult,           \* the value it returned
    \* ---- bluesky/followers.rs, bluesky/posts.rs: one paginated fetch ----
    fePc,               \* "idle", "request" (a page is awaited), "done", "failed"
    feCall,             \* which fetch, and its max
    feItems,            \* the items collected so far
    feCursor,           \* the cursor of the next request (Option)
    \* ---- mutex guards: RateLimiter, SqliteDatabase.conn, OnnxToxicityScorer.session ----
    lkPc,               \* where each task stands inside the call it makes
    lkOwner,            \* the holder of each mutex, or NoOwner
    lkRequests,         \* RateLimiter.requests, as ages
    lkLast,             \* RateLimiter.last_request, as an age, or NoInstant
    lkSleep,            \* ticks left of the sleep a task is suspended in
    lkBlocked           \* the call of acquire() was put to sleep by a full window

scanVars == <<running, started_at, progress_message, last_error, jobPc, spawned, response>>

limiterVars == <<requests, last_request, taskPc, sleepLeft, grantAges, sinceGrant, lastGap>>

retryVars == <<attempt, retryResult, retryError, calls, backoffs, lastOutcome, onlyRateLimited>>

fetchVars == <<query, events, seen_uris>>
loopVars == <<eventIdx, quoteIdx>>
streamVars == <<pending, in_progress, in_flight, arrived>>
dbVars == <<amplification_events, account_scores, last_scan_at>>
selVars == <<selected, selectedFresh, staleReadFailed, fetchedFor>>
cmdVars == <<command, runNo, analyze_followers>>
sweepLocals == <<swIdx, first_degree, swSeen, second_degree_pool>>
histVars == <<stored, persisted, selVars, started, arrivedOk, writeFailed, skipped, storageFailed, analysed>>

pipeVars == <<pipePc, cmdVars, sweepLocals, fetchVars, loopVars, streamVars,
              accounts_scored, dbVars, histVars>>

pgVars == <<pgPc, pgVersion, pgResult, pgLockHolder, pgTableExists, pgSchema, pgRecorded,
            pgStartups, pgLockedOn, pgUnlockedOn, pgRanRecorded>>

sqVars == <<sqPc, sqVersion, sqTables, sqColumns, sqRecorded, sqStartups, sqDuplicateColumn>>

txVars == <<txLast, txPc, txSleep, txSinceGrant, txLastGap>>

\* The state of the scoring and storage functions modelled further down.
stVars == <<stBackend, stScores, stFingerprint, stCall, stArg, stReturned>>

poVars == <<poInput, poResult, poDone>>

poScanVars == <<poTable, poNow, poTuples, poDetected>>

scVars == <<scInputs, scThreat, scSignals, scFinal>>

bpVars == <<bpPc, bpPosts, bpToxicity, bpResult, bpScorerCalls, bpFormulaCalls, bpTable>>

libVars == <<txVars, stVars, poVars, poScanVars, scVars, bpVars>>

serviceVars == <<scanVars, limiterVars, retryVars, pipeVars, pgVars, sqVars>>

pfVars == <<pfCall, pfResult>>

feVars == <<fePc, feCall, feItems, feCursor>>

lkVars == <<lkPc, lkOwner, lkRequests, lkLast, lkSleep, lkBlocked>>

utilVars == <<pfVars, feVars, lkVars>>

vars == <<serviceVars, libVars, utilVars>>

nonScanVars == <<limiterVars, retryVars, pipeVars, pgVars, sqVars, libVars, utilVars>>
nonLimiterVars == <<scanVars, pipeVars, pgVars, sqVars, libVars, utilVars>>
nonPipeVars == <<scanVars, limiterVars, retryVars, pgVars, sqVars, libVars, utilVars>>
nonPgVars == <<scanVars, limiterVars, retryVars, pipeVars, sqVars, libVars, utilVars>>
nonSqVars == <<scanVars, limiterVars, retryVars, pipeVars, pgVars, libVars, utilVars>>
nonTxVars == <<serviceVars, stVars, poVars, poScanVars, scVars, bpVars, utilVars>>
nonStVars == <<serviceVars, txVars, poVars, poScanVars, scVars, bpVars, utilVars>>
nonPoVars == <<serviceVars, txVars, stVars, poScanVars, scVars, bpVars, utilVars>>
nonPoScanVars == <<serviceVars, txVars, stVars, poVars, scVars, bpVars, utilVars>>
nonScVars == <<serviceVars, txVars, stVars, poVars, poScanVars, bpVars, utilVars>>
nonBpVars == <<serviceVars, txVars, stVars, poVars, poScanVars, scVars, utilVars>>
nonPfVars == <<serviceVars, libVars, feVars, lkVars>>
nonFeVars == <<serviceVars, libVars, pfVars, lkVars>>
nonLkVars == <<serviceVars, libVars, pfVars, feVars>>

(***************************************************************************)
(* web/scan_job.rs and web/handlers/scan.rs                                *)
(***************************************************************************)
Clients == 1..NumClients
JobIds == 1..MaxScans

\* Positions of a background task inside run_scan / launch_scan.
ActivePcs == {"load_model", "load_fingerprint", "load_embedding",
              "fetch_events", "score_amplifiers", "pipeline", "failing"}

ScanJobsRunning == {j \in JobIds : jobPc[j] \in ActivePcs}

ScanInit ==
    /\ running = FALSE
    /\ started_at = FALSE
    /\ progress_message = ""
    /\ last_error = "none"
    /\ jobPc = [j \in JobIds |-> "unspawned"]
    /\ spawned = 0
    /\ response = [c \in Clients |-> 0]

\* launch_scan: tokio::spawn of one task that runs run_scan.
launch_scan ==
    /\ spawned' = spawned + 1
    /\ jobPc' = [jobPc EXCEPT ![spawned + 1] = "load_model"]

\* A trigger that skips the `if status.running` early return.
trigger_scan_unguarded(c) ==
    /\ response[c] = 0
    /\ spawned < MaxScans
    /\ running' = TRUE
    /\ started_at' = TRUE
    /\ progress_message' = "Starting scan"
    /\ last_error' = "none"
    /\ launch_scan
    /\ response' = [response EXCEPT ![c] = 202]
    /\ UNCHANGED nonScanVars

\* POST /api/scan. The write guard is held from the read of `running` to the
\* assignments, with no await in between, so the test-and-set is one step.
trigger_scan(c) ==
    /\ response[c] = 0
    /\ IF running
       THEN /\ response' = [response EXCEPT ![c] = 409]
            /\ UNCHANGED <<running, started_at, progress_message, last_error, jobPc, spawned>>
       ELSE /\ spawned < MaxScans
            /\ running' = TRUE
            /\ started_at' = TRUE
            /\ progress_message' = "Starting scan"
            /\ last_error' = "none"
            /\ launch_scan
            /\ response' = [response EXCEPT ![c] = 202]
    /\ UNCHANGED nonScanVars

\* The client reads the response; it may trigger again later.
client_done(c) ==
    /\ response[c] # 0
    /\ response' = [response EXCEPT ![c] = 0]
    /\ UNCHANGED <<running, started_at, progress_message, last_error, jobPc, spawned>>
    /\ UNCHANGED nonScanVars

\* One phase of run_scan: set the progress message under the write lock, then
\* do the phase's work, which either succeeds (next phase) or, where the code
\* has a `?` or a bail!, returns Err to launch_scan.
run_scan_phase(j, at, msg, next, failable) ==
    /\ jobPc[j] = at
    /\ progress_message' = msg
    /\ \/ jobPc' = [jobPc EXCEPT ![j] = next]
       \/ /\ failable
          /\ jobPc' = [jobPc EXCEPT ![j] = "failing"]
    /\ UNCHANGED <<running, started_at, last_error, spawned, response>>
    /\ UNCHANGED nonScanVars

run_scan_load_model(j) ==
    run_scan_phase(j, "load_model", "Loading toxicity model", "load_fingerprint", TRUE)

run_scan_load_fingerprint(j) ==
    run_scan_phase(j, "load_fingerprint", "Loading topic fingerprint", "load_embedding", TRUE)

run_scan_load_embedding(j) ==
    run_scan_phase(j, "load_embedding", "Loading embedding model", "fetch_events", FALSE)

run_scan_fetch_events(j) ==
    run_scan_phase(j, "fetch_events", "Fetching amplification events", "score_amplifiers", TRUE)

\* A scoring phase that goes back to fetching events.
run_scan_score_amplifiers_refetch(j) ==
    run_scan_phase(j, "score_amplifiers", "Scoring followers of amplifiers", "fetch_events", FALSE)

run_scan_score_amplifiers(j) ==
    run_scan_phase(j, "score_amplifiers", "Scoring followers of amplifiers", "pipeline", FALSE)

\* The end of run_scan: the pipeline has returned Ok or Err; either way
\* run_scan clears `running` and returns Ok(()).
run_scan_finish(j) ==
    /\ jobPc[j] = "pipeline"
    /\ running' = FALSE
    /\ \/ /\ last_error' = "none"
          /\ progress_message' = "Completed"
          /\ jobPc' = [jobPc EXCEPT ![j] = "done"]
       \/ /\ last_error' = "pipeline error"
          /\ progress_message' = "Scan encountered an error"
          /\ jobPc' = [jobPc EXCEPT ![j] = "failed"]
    /\ UNCHANGED <<started_at, spawned, response>>
    /\ UNCHANGED nonScanVars

\* launch_scan's `if let Err(e)` arm.
launch_scan_failed(j) ==
    /\ jobPc[j] = "failing"
    /\ running' = FALSE
    /\ last_error' = "scan error"
    /\ progress_message' = "Scan failed"
    /\ jobPc' = [jobPc EXCEPT ![j] = "failed"]
    /\ UNCHANGED <<started_at, spawned, response>>
    /\ UNCHANGED nonScanVars

\* A panic inside the spawned task: tokio drops the task, nothing else runs.
task_panic(j) ==
    /\ jobPc[j] \in ActivePcs
    /\ jobPc' = [jobPc EXCEPT ![j] = "panicked"]
    /\ UNCHANGED <<running, started_at, progress_message, last_error, spawned, response>>
    /\ UNCHANGED nonScanVars

\* A step of a background task that is not a panic.
ScanJobStep ==
    \E j \in JobIds :
        \/ run_scan_load_model(j)
        \/ run_scan_load_fingerprint(j)
        \/ run_scan_load_embedding(j)
        \/ run_scan_fetch_events(j)
        \/ run_scan_score_amplifiers(j)
        \/ run_scan_finish(j)
        \/ launch_scan_failed(j)

ScanNext ==
    \/ \E c \in Clients : trigger_scan(c)
    \/ \E c \in Clients : client_done(c)
    \/ \E j \in JobIds : run_scan_load_model(j)
    \/ \E j \in JobIds : run_scan_load_fingerprint(j)
    \/ \E j \in JobIds : run_scan_load_embedding(j)
    \/ \E j \in JobIds : run_scan_fetch_events(j)
    \/ \E j \in JobIds : run_scan_score_amplifiers(j)
    \/ \E j \in JobIds : run_scan_finish(j)
    \/ \E j \in JobIds : launch_scan_failed(j)
    \/ \E j \in JobIds : task_panic(j)

(***************************************************************************)
(* bluesky/rate_limit.rs: RateLimiter                                      *)
(*                                                                         *)
(* The code stores Instants and only ever uses differences from "now", so  *)
(* the model stores the age of each Instant and lets Tick age them all.    *)
(* An age beyond the largest value the code compares it with is kept at    *)
(* that value plus one: `> window` and `< min_delay` cannot tell further.  *)
(***************************************************************************)
Tasks == 1..NumTasks
NoInstant == -1

\* The task that calls with_retry, and whether it is inside the call.
RetryCaller == 1
Retrying(t) == t = RetryCaller /\ retryResult = "running"

Aged(a, cap) == IF a = NoInstant THEN NoInstant ELSE Min(a + 1, cap)

\* Eviction that also pops a request exactly `window` old.
RECURSIVE EvictAtWindow(_)
EvictAtWindow(q) ==
    IF q # <<>> /\ Head(q) >= Window THEN EvictAtWindow(Tail(q)) ELSE q

\* No eviction at all: the deque only grows.
EvictNothing(q) == q

\* `while let Some(&oldest) = requests.front()`: pop while older than the window.
RECURSIVE Evict(_)
Evict(q) ==
    IF q # <<>> /\ Head(q) > Window THEN Evict(Tail(q)) ELSE q

LimiterInit ==
    /\ requests = <<>>
    /\ last_request = NoInstant
    /\ taskPc = [t \in Tasks |-> "idle"]
    /\ sleepLeft = [t \in Tasks |-> 0]
    /\ grantAges = <<>>
    /\ sinceGrant = NoInstant
    /\ lastGap = NoInstant

\* The first block of acquire(): read last_request under its lock and decide
\* whether to sleep for the rest of the minimum delay.
acquire_min_delay(t) ==
    IF last_request # NoInstant /\ last_request < MinDelay
    THEN /\ taskPc' = [taskPc EXCEPT ![t] = "delay_sleep"]
         /\ sleepLeft' = [sleepLeft EXCEPT ![t] = MinDelay - last_request]
    ELSE /\ taskPc' = [taskPc EXCEPT ![t] = "window"]
         /\ sleepLeft' = sleepLeft

\* What a granted acquire() returns to: the caller's next await.
AfterGrant(t, retrying) == IF retrying THEN "operation" ELSE "idle"

\* One pass of the loop of acquire(): evict, then either record the request
\* and return, or compute the wait until the oldest request expires.
acquire_window(t, retrying) ==
    /\ taskPc[t] = "window"
    /\ LET kept == Evict(requests) IN
       IF Len(kept) < MaxRequests
       THEN /\ requests' = Append(kept, 0)
            /\ last_request' = 0
            /\ taskPc' = [taskPc EXCEPT ![t] = AfterGrant(t, retrying)]
            /\ sleepLeft' = sleepLeft
            /\ grantAges' = Append(grantAges, 0)
            /\ lastGap' = sinceGrant
            /\ sinceGrant' = 0
       ELSE /\ requests' = kept
            /\ taskPc' = [taskPc EXCEPT ![t] = "window_sleep"]
            /\ sleepLeft' = [sleepLeft EXCEPT ![t] = Max(Window - Head(kept), 0)]
            /\ UNCHANGED <<last_request, grantAges, sinceGrant, lastGap>>

\* A task that is not inside with_retry calls acquire().
acquire(t) ==
    /\ taskPc[t] = "idle"
    /\ acquire_min_delay(t)
    /\ UNCHANGED <<requests, last_request, grantAges, sinceGrant, lastGap>>
    /\ UNCHANGED <<retryVars, nonLimiterVars>>

acquire_loop(t) ==
    /\ ~Retrying(t)
    /\ acquire_window(t, FALSE)
    /\ UNCHANGED <<retryVars, nonLimiterVars>>

\* tokio::time::sleep has elapsed: both sleeps of acquire() lead to the loop.
sleep_elapsed(t) ==
    /\ taskPc[t] \in {"delay_sleep", "window_sleep"}
    /\ sleepLeft[t] = 0
    /\ taskPc' = [taskPc EXCEPT ![t] = "window"]
    /\ UNCHANGED <<requests, last_request, sleepLeft, grantAges, sinceGrant, lastGap>>
    /\ UNCHANGED <<retryVars, nonLimiterVars>>

record_request(t) ==
    /\ taskPc[t] = "idle"
    /\ Len(requests) < QueueCap
    /\ requests' = Append(requests, 0)
    /\ last_request' = 0
    /\ UNCHANGED <<taskPc, sleepLeft, grantAges, sinceGrant, lastGap>>
    /\ UNCHANGED <<retryVars, nonLimiterVars>>

\* One clock tick (one second): every Instant is a tick older, every sleep a
\* tick shorter. Grants older than the window leave the history.
Tick ==
    /\ requests' = [i \in DOMAIN requests |-> Aged(requests[i], Window + 1)]
    /\ last_request' = Aged(last_request, MinDelay)
    /\ sleepLeft' = [t \in Tasks |-> Max(sleepLeft[t] - 1, 0)]
    /\ grantAges' = SelectSeq([i \in DOMAIN grantAges |-> grantAges[i] + 1],
                              LAMBDA a : a <= Window)
    /\ sinceGrant' = Aged(sinceGrant, MinDelay)
    /\ UNCHANGED <<taskPc, lastGap>>
    /\ UNCHANGED <<retryVars, nonLimiterVars>>

LimiterNext ==
    \/ \E t \in Tasks : acquire(t)
    \/ \E t \in Tasks : acquire_loop(t)
    \/ \E t \in Tasks : sleep_elapsed(t)
    \/ \E t \in Tasks : record_request(t)
    \/ Tick

(***************************************************************************)
(* bluesky/rate_limit.rs: is_rate_limit_error and with_retry               *)
(***************************************************************************)
MAX_RETRIES == 5
BASE_BACKOFF == 2
MAX_BACKOFF == 60

\* Errors the operation may fail with, each with the Debug text the code
\* inspects, written as a sequence of characters.
ErrorIds == {"http_429", "rate_limit_mixed_case", "ratelimit_joined",
             "connection_refused", "near_miss"}

DebugString(e) ==
    CASE e = "http_429" -> <<"H", "T", "T", "P", " ", "4", "2", "9">>
      [] e = "rate_limit_mixed_case" -> <<"R", "a", "t", "e", " ", "L", "i", "m", "i", "t">>
      [] e = "ratelimit_joined" -> <<"X", "R", "a", "t", "e", "L", "i", "m", "i", "t">>
      [] e = "connection_refused" -> <<"c", "o", "n", "n", "e", "c", "t", "i", "o", "n", " ", "r", "e", "f", "u", "s", "e", "d">>
      [] e = "near_miss" -> <<"r", "a", "t", "e", "-", "l", "i", "m", "i", "t", " ", "4", "2">>

UpperCase == <<"A", "B", "C", "D", "E", "F", "G", "H", "I", "J", "K", "L", "M", "N", "O", "P", "Q", "R", "S", "T", "U", "V", "W", "X", "Y", "Z">>
LowerCase == <<"a", "b", "c", "d", "e", "f", "g", "h", "i", "j", "k", "l", "m", "n", "o", "p", "q", "r", "s", "t", "u", "v", "w", "x", "y", "z">>

\* str::to_lowercase on the ASCII text of the samples.
to_lowercase(str) ==
    [i \in DOMAIN str |->
        IF \E k \in DOMAIN UpperCase : UpperCase[k] = str[i]
        THEN LowerCase[CHOOSE k \in DOMAIN UpperCase : UpperCase[k] = str[i]]
        ELSE str[i]]

\* str::contains
contains(str, pat) ==
    \E i \in 1..(Len(str) - Len(pat) + 1) : SubSeq(str, i, i + Len(pat) - 1) = pat

is_rate_limit_error(e) ==
    LET debug_str == DebugString(e) IN
    \/ contains(debug_str, <<"4", "2", "9">>)
    \/ contains(to_lowercase(debug_str), <<"r", "a", "t", "e", " ", "l", "i", "m", "i", "t">>)
    \/ contains(to_lowercase(debug_str), <<"r", "a", "t", "e", "l", "i", "m", "i", "t">>)

\* The guard with `&&` in place of `||`.
ReturnsErrConjoined(e, att) == ~is_rate_limit_error(e) /\ att >= MAX_RETRIES

\* The guard with `>` in place of `>=`.
ReturnsErrOffByOne(e, att) == ~is_rate_limit_error(e) \/ att > MAX_RETRIES

\* `if !is_rate_limit_error(&err) || attempt >= MAX_RETRIES { return Err(err) }`
ReturnsErr(e, att) == ~is_rate_limit_error(e) \/ att >= MAX_RETRIES

RECURSIVE Pow2(_)
Pow2(n) == IF n = 0 THEN 1 ELSE 2 * Pow2(n - 1)

\* The backoff without `.min(MAX_BACKOFF)`.
BackoffUncapped(att) == BASE_BACKOFF * Pow2(att)

\* BASE_BACKOFF.saturating_mul(1u32 << attempt).min(MAX_BACKOFF), in seconds.
Backoff(att) == Min(BASE_BACKOFF * Pow2(att), MAX_BACKOFF)

\* Sampled values of `nanos % 500`.
JitterSamples == {0, 250, 499}

\* backoff * (0.75 + j / 1000), in milliseconds.
JitteredMillis(att, j) == Backoff(att) * (750 + j)

\* The sleep ends at the first tick at or after its duration.
SleepTicks(millis) == (millis + 999) \div 1000

RetryInit ==
    /\ attempt = 0
    /\ retryResult = "none"
    /\ retryError = "none"
    /\ calls = 0
    /\ backoffs = 0
    /\ lastOutcome = "none"
    /\ onlyRateLimited = TRUE

\* Entry of with_retry: attempt = 0, then the first acquire() of the loop.
with_retry(t) ==
    /\ t = RetryCaller
    /\ taskPc[t] = "idle"
    /\ attempt' = 0
    /\ retryResult' = "running"
    /\ retryError' = "none"
    /\ calls' = 0
    /\ backoffs' = 0
    /\ lastOutcome' = "none"
    /\ onlyRateLimited' = TRUE
    /\ acquire_min_delay(t)
    /\ UNCHANGED <<requests, last_request, grantAges, sinceGrant, lastGap>>
    /\ UNCHANGED nonLimiterVars

\* The window loop of the acquire() inside with_retry; once granted, the
\* operation is invoked.
with_retry_acquire_loop(t) ==
    /\ Retrying(t)
    /\ acquire_window(t, TRUE)
    /\ calls' = IF taskPc'[t] = "operation" THEN calls + 1 ELSE calls
    /\ UNCHANGED <<attempt, retryResult, retryError, backoffs, lastOutcome, onlyRateLimited>>
    /\ UNCHANGED nonLimiterVars

\* `match operation().await`: Ok returns, Err returns or backs off.
operation_returns(t) ==
    /\ Retrying(t)
    /\ taskPc[t] = "operation"
    /\ \E outcome \in {"ok"} \cup ErrorIds :
        /\ lastOutcome' = outcome
        /\ onlyRateLimited' = (onlyRateLimited /\ outcome \in ErrorIds
                                               /\ is_rate_limit_error(outcome))
        /\ IF outcome = "ok"
           THEN /\ retryResult' = "ok"
                /\ taskPc' = [taskPc EXCEPT ![t] = "idle"]
                /\ UNCHANGED <<attempt, retryError, backoffs, sleepLeft>>
           ELSE IF ReturnsErr(outcome, attempt)
           THEN /\ retryResult' = "err"
                /\ retryError' = outcome
                /\ taskPc' = [taskPc EXCEPT ![t] = "idle"]
                /\ UNCHANGED <<attempt, backoffs, sleepLeft>>
           ELSE /\ attempt' = attempt + 1
                /\ backoffs' = backoffs + 1
                /\ taskPc' = [taskPc EXCEPT ![t] = "backoff"]
                /\ \E j \in JitterSamples :
                     sleepLeft' = [sleepLeft EXCEPT
                                     ![t] = SleepTicks(JitteredMillis(attempt + 1, j))]
                /\ UNCHANGED <<retryResult, retryError>>
    /\ UNCHANGED <<calls, requests, last_request, grantAges, sinceGrant, lastGap>>
    /\ UNCHANGED nonLimiterVars

\* The backoff sleep has elapsed: back to the top of the loop, acquire() again.
backoff_elapsed(t) ==
    /\ Retrying(t)
    /\ taskPc[t] = "backoff"
    /\ sleepLeft[t] = 0
    /\ acquire_min_delay(t)
    /\ UNCHANGED <<requests, last_request, grantAges, sinceGrant, lastGap>>
    /\ UNCHANGED <<retryVars, nonLimiterVars>>

RetryNext ==
    \/ \E t \in Tasks : with_retry(t)
    \/ \E t \in Tasks : with_retry_acquire_loop(t)
    \/ \E t \in Tasks : operation_returns(t)
    \/ \E t \in Tasks : backoff_elapsed(t)
    \/ \E t \in Tasks \ {RetryCaller} : acquire(t)
    \/ \E t \in Tasks : acquire_loop(t)
    \/ \E t \in Tasks : sleep_elapsed(t)
    \/ Tick

(***************************************************************************)
(* constellation/client.rs, main.rs (scan), pipeline/amplification.rs and  *)
(* the storage rows of db/queries.rs                                       *)
(*                                                                         *)
(* The network is a fixed small world; every call into it, and every       *)
(* storage call, may fail.                                                 *)
(***************************************************************************)
ProtectedHandle == "me.h"
ProtectedDid == "me"

\* The protected user's recent posts (fetch_recent_posts, URIs only).
PostUris == <<"p1">>

QuoteSource == "app.bsky.feed.post"
RepostSource == "app.bsky.feed.repost"

\* The records the backlink index holds for a subject and a source.
Backlinks(subject, source) ==
    CASE subject = "p1" /\ source = QuoteSource ->
             << [did |-> "a1", collection |-> QuoteSource, rkey |-> "k1"],
                [did |-> "a2", collection |-> QuoteSource, rkey |-> "k3"],
                [did |-> "a2", collection |-> QuoteSource, rkey |-> "k3"] >>
      [] subject = "p1" /\ source = RepostSource ->
             << [did |-> "a3", collection |-> RepostSource, rkey |-> "k2"] >>
      [] OTHER -> << >>

\* resolve_dids_to_handles
HandleOf(did) ==
    CASE did = "a1" -> "a1.h"
      [] did = "a2" -> "a2.h"
      [] OTHER -> "a3.h"

Follower(d) == [did |-> d, handle |-> IF d = ProtectedDid THEN ProtectedHandle ELSE d]

\* get_followers of an actor, named by handle or by DID.
FollowersOf(actor) ==
    CASE actor \in {"a1", HandleOf("a1")} ->
             << Follower("f1"), Follower("me"), Follower("f2") >>
      [] actor \in {"a2", HandleOf("a2")} -> << Follower("f2"), Follower("f3") >>
      [] actor = ProtectedHandle -> << Follower("f1"), Follower("f2") >>
      [] actor = "f1" -> << Follower("me"), Follower("f3") >>
      [] actor = "f2" -> << Follower("f3"), Follower("f1"), Follower("f4") >>
      [] OTHER -> << >>

Dids == {"f1", "f2", "f3", "f4", "me"}

MAX_AGE_DAYS == 7
NoRow == [age |-> -1]

\* format!("at://{}/{}/{}", record.did, record.collection, record.rkey)
AmpUri(record) == <<"at://", record.did, record.collection, record.rkey>>

\* The loop over resp.records: push the records whose URI is new.
RECURSIVE PushNew(_, _, _, _, _)
PushNew(evs, seen, records, kind, subject) ==
    IF records = << >> THEN [events |-> evs, seen |-> seen]
    ELSE LET r == Head(records)
             uri == AmpUri(r)
         IN IF uri \in seen
            THEN PushNew(evs, seen, Tail(records), kind, subject)
            ELSE PushNew(Append(evs, [event_type |-> kind,
                                      amplifier_did |-> r.did,
                                      amplifier_handle |-> r.did,
                                      original_post_uri |-> subject,
                                      amplifier_post_uri |-> uri]),
                         seen \cup {uri}, Tail(records), kind, subject)

\* events.retain(|e| seen.insert(e.amplifier_post_uri.clone()))
RECURSIVE Retain(_, _)
Retain(evs, seen) ==
    IF evs = << >> THEN << >>
    ELSE IF Head(evs).amplifier_post_uri \in seen
         THEN Retain(Tail(evs), seen)
         ELSE <<Head(evs)>> \o Retain(Tail(evs), seen \cup {Head(evs).amplifier_post_uri})

\* The queries find_amplification_events makes, in order: quotes then
\* reposts of each URI.
NumQueries == 2 * Len(PostUris)
QuerySubject(q) == PostUris[(q + 1) \div 2]
QuerySource(q) == IF q % 2 = 1 THEN QuoteSource ELSE RepostSource
QueryKind(q) == IF q % 2 = 1 THEN "quote" ELSE "repost"

\* events.iter().filter(|e| e.event_type == "quote")
EveryEvent(evs) == evs
quote_events(evs) == SelectSeq(evs, LAMBDA e : e.event_type = "quote")

\* is_score_stale: no row, or scored_at older than now - max_age_days.
IsScoreStaleFromCutoff(scores, did, max_age_days) ==
    scores[did] = NoRow \/ scores[did].age >= max_age_days
is_score_stale(scores, did, max_age_days) ==
    scores[did] = NoRow \/ scores[did].age > max_age_days

\* INSERT INTO amplification_events .. VALUES ..: always a new row, whose id
\* (AUTOINCREMENT) is its position in the table. Of the columns, the row keeps
\* the ones that identify the event.
insert_amplification_event(rows, e) ==
    Append(rows, [event_type |-> e.event_type,
                  amplifier_did |-> e.amplifier_did,
                  original_post_uri |-> e.original_post_uri,
                  amplifier_post_uri |-> e.amplifier_post_uri])

\* An upsert whose DO UPDATE leaves scored_at as it was.
UpsertKeepsScoredAt(scores, did) ==
    IF scores[did] = NoRow THEN [scores EXCEPT ![did] = [age |-> 0]] ELSE scores

\* INSERT .. ON CONFLICT(did) DO UPDATE ..: one row per did, scored_at = now.
upsert_account_score(scores, did) ==
    [scores EXCEPT ![did] = [age |-> 0]]

\* catch_unwind().await.unwrap_or_else(|_| Err(..)): a panic becomes an Err.
BuildResultUnguarded(outcome) == outcome
BuildResult(outcome) == IF outcome = "panic" THEN "err_panic" ELSE outcome

\* `while let Some(result) = stream.next().await { .. }`: the stream is polled
\* again only after the previous result has been handled.
PollsWhileUnhandled(unhandled) == TRUE
MayPollStream(unhandled) == unhandled = << >>

\* `Err(e) => warn!(.., "Failed to fetch followers, skipping")`
on_followers_error_propagate == "failed"
on_followers_error == "next_amplifier"

PipelineInit ==
    /\ pipePc = "idle"
    /\ runNo = 0
    /\ analyze_followers = FALSE
    /\ query = 0
    /\ events = << >>
    /\ seen_uris = {}
    /\ eventIdx = 0
    /\ quoteIdx = 0
    /\ pending = << >>
    /\ in_progress = {}
    /\ in_flight = 0
    /\ arrived = << >>
    /\ accounts_scored = 0
    /\ amplification_events = << >>
    /\ account_scores = [d \in Dids |-> NoRow]
    /\ last_scan_at = 0
    /\ stored = {}
    /\ persisted = {}
    /\ selected = {}
    /\ selectedFresh = {}
    /\ staleReadFailed = {}
    /\ fetchedFor = {}
    /\ command = "none"
    /\ swIdx = 0
    /\ first_degree = << >>
    /\ swSeen = {}
    /\ second_degree_pool = << >>
    /\ started = {}
    /\ arrivedOk = {}
    /\ writeFailed = {}
    /\ skipped = {}
    /\ storageFailed = FALSE
    /\ analysed = {}

Terminated == {"idle", "done", "failed", "panicked", "crashed"}

\* Where run() goes after its loop over the events: the follower analysis
\* of the first quote event, or the end.
AfterEvents(evs, analyze) ==
    IF analyze /\ evs # << >> /\ quote_events(evs) # << >> THEN "followers" ELSE "done"

\* Where run() goes after the amplifier at index i of quote_events.
AfterAmplifier(evs, i) ==
    IF i < Len(quote_events(evs)) THEN "followers" ELSE "done"

\* `charcoal scan [--analyze]` starts, `days` days after the previous scan
\* ended (ages beyond MAX_AGE_DAYS + 1 are not told apart):
\* fetch_constellation_events fetches the protected user's recent posts; if
\* that fails the scan goes on with no events.
scan_begin ==
    /\ pipePc \in Terminated
    /\ runNo < MaxRuns
    /\ runNo' = runNo + 1
    /\ \E analyze \in BOOLEAN : analyze_followers' = analyze
    /\ \/ pipePc' = "backlinks" /\ query' = 1 /\ skipped' = {}
       \/ pipePc' = "run" /\ query' = 0 /\ skipped' = {<<"posts", 0>>}
    /\ events' = << >>
    /\ seen_uris' = {}
    /\ eventIdx' = 0
    /\ quoteIdx' = 0
    /\ pending' = << >>
    /\ in_progress' = {}
    /\ in_flight' = 0
    /\ arrived' = << >>
    /\ accounts_scored' = 0
    /\ \E days \in {0, MAX_AGE_DAYS, MAX_AGE_DAYS + 1} :
         account_scores' =
            [d \in Dids |->
                IF account_scores[d] = NoRow THEN NoRow
                ELSE [age |-> Min(account_scores[d].age + days, MAX_AGE_DAYS + 1)]]
    /\ stored' = {}
    /\ persisted' = {}
    /\ selected' = {}
    /\ selectedFresh' = {}
    /\ staleReadFailed' = {}
    /\ fetchedFor' = {}
    /\ command' = "scan"
    /\ swIdx' = 0
    /\ first_degree' = << >>
    /\ swSeen' = {}
    /\ second_degree_pool' = << >>
    /\ started' = {}
    /\ arrivedOk' = {}
    /\ writeFailed' = {}
    /\ storageFailed' = FALSE
    /\ analysed' = {}
    /\ UNCHANGED <<amplification_events, last_scan_at, nonPipeVars>>

\* One get_backlinks call of find_amplification_events and its match arms.
get_backlinks ==
    /\ pipePc = "backlinks"
    /\ \/ LET got == PushNew(events, seen_uris,
                             Backlinks(QuerySubject(query), QuerySource(query)),
                             QueryKind(query), QuerySubject(query))
          IN /\ events' = got.events
             /\ seen_uris' = got.seen
             /\ skipped' = skipped
       \/ /\ skipped' = skipped \cup {<<"backlinks", query>>}
          /\ UNCHANGED <<events, seen_uris>>
    /\ IF query < NumQueries
       THEN query' = query + 1 /\ pipePc' = pipePc
       ELSE query' = 0 /\ pipePc' = "resolve"
    /\ UNCHANGED <<cmdVars, sweepLocals, loopVars, streamVars, accounts_scored,
                   dbVars, stored, persisted, selVars, started, arrivedOk, writeFailed,
                   storageFailed, analysed, nonPipeVars>>

\* The rest of fetch_constellation_events: resolve DIDs to handles (keeping the
\* raw DIDs if that fails), then deduplicate by amplifier_post_uri.
resolve_dids_to_handles ==
    /\ pipePc = "resolve"
    /\ \/ events' = Retain([i \in DOMAIN events |->
                              [events[i] EXCEPT !.amplifier_handle =
                                                   HandleOf(events[i].amplifier_did)]], {})
       \/ events' = Retain(events, {})
    /\ pipePc' = "run"
    /\ UNCHANGED <<cmdVars, sweepLocals, query, seen_uris, loopVars, streamVars,
                   accounts_scored, dbVars, histVars, nonPipeVars>>

\* run(): set_scan_state("last_scan_at", now)?
run_set_scan_state ==
    /\ pipePc = "run"
    /\ \/ /\ last_scan_at' = runNo
          /\ storageFailed' = storageFailed
          /\ IF events # << >>
             THEN pipePc' = "events" /\ eventIdx' = 1 /\ quoteIdx' = quoteIdx
             ELSE pipePc' = "done" /\ UNCHANGED loopVars
       \/ /\ storageFailed' = TRUE
          /\ pipePc' = "failed"
          /\ UNCHANGED <<last_scan_at, loopVars>>
    /\ UNCHANGED <<cmdVars, sweepLocals, fetchVars, streamVars, accounts_scored,
                   amplification_events, account_scores, stored, persisted, selVars,
                   started, arrivedOk, writeFailed, skipped, analysed, nonPipeVars>>

\* One iteration of `for event in &events`: fetch and score the quote text,
\* then insert_amplification_event(..)?
store_event ==
    /\ pipePc = "events"
    /\ LET e == events[eventIdx] IN
       \E fetched \in {"text", "none", "err"}, scored \in {"ok", "err"} :
          /\ (e.event_type = "quote" /\ analyze_followers) \/ fetched = "none"
          /\ fetched = "text" \/ scored = "ok"
          /\ LET fails == (IF fetched = "err" THEN {<<"text", eventIdx>>} ELSE {})
                          \cup (IF scored = "err" THEN {<<"score", eventIdx>>} ELSE {})
             IN skipped' = skipped \cup fails
          /\ \/ /\ amplification_events' =
                       insert_amplification_event(amplification_events, e)
                /\ stored' = stored \cup {eventIdx}
                /\ storageFailed' = storageFailed
                /\ IF eventIdx < Len(events)
                   THEN /\ eventIdx' = eventIdx + 1
                        /\ pipePc' = pipePc
                        /\ quoteIdx' = quoteIdx
                   ELSE /\ eventIdx' = 0
                        /\ pipePc' = AfterEvents(events, analyze_followers)
                        /\ quoteIdx' = IF pipePc' = "followers" THEN 1 ELSE 0
             \/ /\ storageFailed' = TRUE
                /\ pipePc' = "failed"
                /\ UNCHANGED <<amplification_events, stored, loopVars>>
    /\ UNCHANGED <<cmdVars, sweepLocals, fetchVars, streamVars, accounts_scored,
                   account_scores, last_scan_at, persisted, selVars, started, arrivedOk,
                   writeFailed, analysed, nonPipeVars>>

\* The stored score of `did` is at most MAX_AGE_DAYS old.
Fresh(did) == account_scores[did] # NoRow /\ account_scores[did].age <= MAX_AGE_DAYS

\* buffer_unordered(limit): how many of the `waiting` futures the buffer takes
\* in when `inFlight` of them are in progress.
BufferFillAll(inFlight, waiting, limit) == waiting
BufferFill(inFlight, waiting, limit) == Min(Max(limit - inFlight, 0), waiting)

\* The accounts whose is_score_stale lookup fails: none, or one account with
\* a fresh score (for any other account the lookup's failure changes nothing,
\* as unwrap_or(true) then agrees with the answer).
UnreadableChoices == {{}} \cup {{d} : d \in {f \in Dids : Fresh(f)}}

\* follower_list.iter().filter(handle != protected_handle)
\*              .filter(is_score_stale(conn, did, 7).unwrap_or(true))
\* `unreadable` are the followers whose staleness query returned Err.
stale_followers(list, unreadable) ==
    SelectSeq(list, LAMBDA f :
        /\ f.handle # ProtectedHandle
        /\ (f.did \in unreadable \/ is_score_stale(account_scores, f.did, MAX_AGE_DAYS)))

\* One iteration of `for event in &quote_events` up to the start of the stream.
fetch_followers ==
    /\ pipePc = "followers"
    /\ LET amp == quote_events(events)[quoteIdx] IN
       fetchedFor' = fetchedFor \cup {[event_type |-> amp.event_type,
                                       amplifier_did |-> amp.amplifier_did]}
    /\ LET amp == quote_events(events)[quoteIdx] IN
       \/ \E unreadable \in UnreadableChoices :
            LET stale == stale_followers(FollowersOf(amp.amplifier_handle), unreadable) IN
            /\ selected' = selected \cup {stale[i].did : i \in DOMAIN stale}
            /\ selectedFresh' = selectedFresh \cup
                  {stale[i].did : i \in {k \in DOMAIN stale : Fresh(stale[k].did)}}
            /\ staleReadFailed' = staleReadFailed \cup
                  (unreadable \cap {stale[i].did : i \in DOMAIN stale})
            /\ skipped' = skipped
            /\ IF stale = << >>
               THEN /\ analysed' = analysed \cup {quoteIdx}
                    /\ pipePc' = AfterAmplifier(events, quoteIdx)
                    /\ quoteIdx' = IF pipePc' = "followers" THEN quoteIdx + 1 ELSE 0
                    /\ pending' = << >>
               ELSE /\ pending' = [i \in DOMAIN stale |-> stale[i].did]
                    /\ pipePc' = "stream"
                    /\ UNCHANGED <<analysed, quoteIdx>>
       \/ /\ skipped' = skipped \cup {<<"followers", quoteIdx>>}
          /\ IF on_followers_error = "next_amplifier"
             THEN /\ pipePc' = AfterAmplifier(events, quoteIdx)
                  /\ quoteIdx' = IF pipePc' = "followers" THEN quoteIdx + 1 ELSE 0
             ELSE /\ pipePc' = "failed"
                  /\ quoteIdx' = quoteIdx
          /\ UNCHANGED <<selected, selectedFresh, staleReadFailed, analysed, pending>>
    /\ UNCHANGED <<cmdVars, sweepLocals, fetchVars, eventIdx, in_progress, in_flight, arrived,
                   accounts_scored, dbVars, stored, persisted, started, arrivedOk,
                   writeFailed, storageFailed, nonPipeVars>>

\* stream.next().await on buffer_unordered(concurrency): the buffer is filled
\* up to `concurrency` builds from the iterator, then one build in progress
\* completes and its result is yielded.
stream_next ==
    /\ pipePc = "stream"
    /\ MayPollStream(arrived)
    /\ pending # << >> \/ in_progress # {}
    /\ LET n == BufferFill(Cardinality(in_progress), Len(pending), Concurrency)
           filled == in_progress \cup {pending[i] : i \in 1..n}
       IN /\ pending' = SubSeq(pending, n + 1, Len(pending))
          /\ started' = started \cup filled
          /\ in_flight' = Cardinality(filled)
          /\ \E did \in filled, outcome \in {"ok", "err", "panic"} :
               IF BuildResult(outcome) = "panic"
               THEN /\ pipePc' = "panicked"
                    /\ in_progress' = filled
                    /\ UNCHANGED <<arrived, arrivedOk>>
               ELSE /\ pipePc' = pipePc
                    /\ in_progress' = filled \ {did}
                    /\ arrived' = Append(arrived, [did |-> did, result |-> BuildResult(outcome)])
                    /\ arrivedOk' = IF outcome = "ok" THEN arrivedOk \cup {did} ELSE arrivedOk
    /\ UNCHANGED <<cmdVars, sweepLocals, fetchVars, loopVars, accounts_scored, dbVars,
                   stored, persisted, selVars, writeFailed, skipped, storageFailed,
                   analysed, nonPipeVars>>

\* The body of the `while let`: upsert_account_score(..)? for an Ok, a warning
\* for an Err; when the stream is exhausted, on to the next amplifier.
handle_result ==
    /\ pipePc = "stream"
    /\ arrived # << >>
    /\ LET r == Head(arrived)
           more == pending # << >> \/ in_progress # {} \/ Tail(arrived) # << >>
       IN /\ arrived' = Tail(arrived)
          /\ \/ /\ r.result = "ok"
                /\ account_scores' = upsert_account_score(account_scores, r.did)
                /\ persisted' = persisted \cup {r.did}
                /\ accounts_scored' = accounts_scored + 1
                /\ UNCHANGED <<writeFailed, storageFailed, skipped>>
                /\ IF more
                   THEN UNCHANGED <<pipePc, quoteIdx, analysed>>
                   ELSE /\ analysed' = analysed \cup {quoteIdx}
                        /\ pipePc' = AfterAmplifier(events, quoteIdx)
                        /\ quoteIdx' = IF pipePc' = "followers" THEN quoteIdx + 1 ELSE 0
             \/ /\ r.result = "ok"
                /\ writeFailed' = writeFailed \cup {r.did}
                /\ storageFailed' = TRUE
                /\ pipePc' = "failed"
                /\ UNCHANGED <<account_scores, persisted, accounts_scored, skipped,
                               quoteIdx, analysed>>
             \/ /\ r.result # "ok"
                /\ skipped' = skipped \cup {<<r.result, r.did>>}
                /\ UNCHANGED <<account_scores, persisted, accounts_scored, writeFailed,
                               storageFailed>>
                /\ IF more
                   THEN UNCHANGED <<pipePc, quoteIdx, analysed>>
                   ELSE /\ analysed' = analysed \cup {quoteIdx}
                        /\ pipePc' = AfterAmplifier(events, quoteIdx)
                        /\ quoteIdx' = IF pipePc' = "followers" THEN quoteIdx + 1 ELSE 0
    /\ UNCHANGED <<cmdVars, sweepLocals, fetchVars, eventIdx, pending, in_progress, in_flight,
                   amplification_events, last_scan_at, stored, selVars, started,
                   arrivedOk, nonPipeVars>>

\* The process stops (killed, power loss) somewhere inside a scan.
crash ==
    /\ pipePc \notin Terminated
    /\ pipePc' = "crashed"
    /\ UNCHANGED <<cmdVars, sweepLocals, fetchVars, loopVars, streamVars,
                   accounts_scored, dbVars, histVars, nonPipeVars>>

PipelineNext ==
    \/ scan_begin
    \/ get_backlinks
    \/ resolve_dids_to_handles
    \/ run_set_scan_state
    \/ store_event
    \/ fetch_followers
    \/ stream_next
    \/ handle_result
    \/ crash

(***************************************************************************)
(* pipeline/sweep.rs: run (the second-degree sweep), on the same database  *)
(***************************************************************************)
\* seen.insert(f.did) for each of their_followers: the unseen ones are pushed.
RECURSIVE PushUnseen(_, _, _)
PushUnseen(pool, seenSoFar, followers) ==
    IF followers = << >> THEN [pool |-> pool, seen |-> seenSoFar]
    ELSE IF Head(followers).did \in seenSoFar
         THEN PushUnseen(pool, seenSoFar, Tail(followers))
         ELSE PushUnseen(Append(pool, Head(followers)),
                         seenSoFar \cup {Head(followers).did}, Tail(followers))

\* `charcoal sweep` starts, `days` days after the previous command ended:
\* Step 1 fetches the protected user's followers (`?` on failure) and Step 2
\* starts with seen = {protected_handle} + the DIDs of first_degree.
sweep_begin ==
    /\ pipePc \in Terminated
    /\ runNo < MaxRuns
    /\ runNo' = runNo + 1
    /\ command' = "sweep"
    /\ analyze_followers' = FALSE
    /\ \/ /\ first_degree' = FollowersOf(ProtectedHandle)
          /\ swSeen' = {ProtectedHandle}
                          \cup {first_degree'[i].did : i \in DOMAIN first_degree'}
          /\ swIdx' = 1
          /\ pipePc' = "sw_second"
       \/ /\ pipePc' = "failed"
          /\ first_degree' = << >>
          /\ swSeen' = {}
          /\ swIdx' = 0
    /\ second_degree_pool' = << >>
    /\ query' = 0
    /\ events' = << >>
    /\ seen_uris' = {}
    /\ eventIdx' = 0
    /\ quoteIdx' = 0
    /\ pending' = << >>
    /\ in_progress' = {}
    /\ in_flight' = 0
    /\ arrived' = << >>
    /\ accounts_scored' = 0
    /\ \E days \in {0, MAX_AGE_DAYS, MAX_AGE_DAYS + 1} :
         account_scores' =
            [d \in Dids |->
                IF account_scores[d] = NoRow THEN NoRow
                ELSE [age |-> Min(account_scores[d].age + days, MAX_AGE_DAYS + 1)]]
    /\ stored' = {}
    /\ persisted' = {}
    /\ selected' = {}
    /\ selectedFresh' = {}
    /\ staleReadFailed' = {}
    /\ fetchedFor' = {}
    /\ started' = {}
    /\ arrivedOk' = {}
    /\ writeFailed' = {}
    /\ skipped' = {}
    /\ storageFailed' = FALSE
    /\ analysed' = {}
    /\ UNCHANGED <<amplification_events, last_scan_at, nonPipeVars>>

\* One iteration of `for follower in &first_degree`.
sweep_fetch_second_degree ==
    /\ pipePc = "sw_second"
    /\ \/ LET got == PushUnseen(second_degree_pool, swSeen,
                                FollowersOf(first_degree[swIdx].handle))
          IN /\ second_degree_pool' = got.pool
             /\ swSeen' = got.seen
             /\ skipped' = skipped
       \/ /\ skipped' = skipped \cup {<<"followers", swIdx>>}
          /\ UNCHANGED <<second_degree_pool, swSeen>>
    /\ IF swIdx < Len(first_degree)
       THEN swIdx' = swIdx + 1 /\ pipePc' = pipePc
       ELSE swIdx' = 0 /\ pipePc' = "sw_filter"
    /\ UNCHANGED <<cmdVars, first_degree, fetchVars, loopVars, streamVars, accounts_scored,
                   dbVars, stored, persisted, selVars, started, arrivedOk, writeFailed,
                   storageFailed, analysed, nonPipeVars>>

\* Step 3: second_degree_pool.iter()
\*            .filter(is_score_stale(conn, did, 7).unwrap_or(true))
sweep_filter_stale ==
    /\ pipePc = "sw_filter"
    /\ \E unreadable \in UnreadableChoices :
         LET stale == SelectSeq(second_degree_pool, LAMBDA f :
                          f.did \in unreadable
                          \/ is_score_stale(account_scores, f.did, MAX_AGE_DAYS))
             dids == {stale[i].did : i \in DOMAIN stale}
         IN /\ selected' = selected \cup dids
            /\ selectedFresh' = selectedFresh \cup {d \in dids : Fresh(d)}
            /\ staleReadFailed' = staleReadFailed \cup (unreadable \cap dids)
            /\ fetchedFor' = fetchedFor
            /\ pending' = [i \in DOMAIN stale |-> stale[i].did]
            /\ pipePc' = IF stale = << >> THEN "done" ELSE "sw_stream"
    /\ UNCHANGED <<cmdVars, sweepLocals, fetchVars, loopVars, in_progress, in_flight, arrived,
                   accounts_scored, dbVars, stored, persisted, started, arrivedOk,
                   writeFailed, skipped, storageFailed, analysed, nonPipeVars>>

\* Step 4: stream::iter(..).buffer_unordered(concurrency).collect().await.
\* Each completed build is appended to `results`; a panic of a build unwinds
\* out of run(). Nothing is written before every build has finished.
sweep_collect ==
    /\ pipePc = "sw_stream"
    /\ LET n == BufferFill(Cardinality(in_progress), Len(pending), Concurrency)
           filled == in_progress \cup {pending[i] : i \in 1..n}
       IN /\ pending' = SubSeq(pending, n + 1, Len(pending))
          /\ started' = started \cup filled
          /\ in_flight' = Cardinality(filled)
          /\ \E did \in filled, outcome \in {"ok", "err", "panic"} :
               IF outcome = "panic"
               THEN /\ pipePc' = "panicked"
                    /\ in_progress' = filled
                    /\ UNCHANGED <<arrived, arrivedOk>>
               ELSE /\ in_progress' = filled \ {did}
                    /\ arrived' = Append(arrived, [did |-> did, result |-> outcome])
                    /\ arrivedOk' = IF outcome = "ok" THEN arrivedOk \cup {did} ELSE arrivedOk
                    /\ pipePc' = IF pending' = << >> /\ in_progress' = {}
                                 THEN "sw_write" ELSE pipePc
    /\ UNCHANGED <<cmdVars, sweepLocals, fetchVars, loopVars, accounts_scored, dbVars,
                   stored, persisted, selVars, writeFailed, skipped, storageFailed,
                   analysed, nonPipeVars>>

\* Step 5: one iteration of `for result in results`.
sweep_write_result ==
    /\ pipePc = "sw_write"
    /\ LET r == Head(arrived) IN
       /\ arrived' = Tail(arrived)
       /\ \/ /\ r.result = "ok"
             /\ account_scores' = upsert_account_score(account_scores, r.did)
             /\ persisted' = persisted \cup {r.did}
             /\ accounts_scored' = accounts_scored + 1
             /\ pipePc' = IF Tail(arrived) = << >> THEN "done" ELSE pipePc
             /\ UNCHANGED <<writeFailed, storageFailed, skipped>>
          \/ /\ r.result = "ok"
             /\ writeFailed' = writeFailed \cup {r.did}
             /\ storageFailed' = TRUE
             /\ pipePc' = "failed"
             /\ UNCHANGED <<account_scores, persisted, accounts_scored, skipped>>
          \/ /\ r.result # "ok"
             /\ skipped' = skipped \cup {<<r.result, r.did>>}
             /\ pipePc' = IF Tail(arrived) = << >> THEN "done" ELSE pipePc
             /\ UNCHANGED <<account_scores, persisted, accounts_scored, writeFailed,
                            storageFailed>>
    /\ UNCHANGED <<cmdVars, sweepLocals, fetchVars, loopVars, pending, in_progress, in_flight,
                   amplification_events, last_scan_at, stored, selVars, started,
                   arrivedOk, analysed, nonPipeVars>>

SweepNext ==
    \/ sweep_begin
    \/ sweep_fetch_second_degree
    \/ sweep_filter_stale
    \/ sweep_collect
    \/ sweep_write_result

(***************************************************************************)
(* db/postgres.rs: PgDatabase::connect and run_migrations                  *)
(*                                                                         *)
(* Several processes start against one PostgreSQL database. Every query    *)
(* may fail, and a process may stop at any point; the server ends the      *)
(* sessions of a stopped process, which releases their advisory locks and  *)
(* rolls back their open transactions.                                     *)
(***************************************************************************)
Procs == 1..NumProcs

\* let migrations = [(1, ..), (2, ..), (3, ..)]
LAST_MIGRATION == 3
Migrations == 1..LAST_MIGRATION

NoSession == <<0, "none">>

\* The dedicated connection taken from the pool for the advisory lock, and
\* the connection the unlock statement is executed on.
lock_conn(p) == <<p, "lock_conn">>
UnlockOnPoolConnection(p) == <<p, "pool">>
unlock_conn(p) == lock_conn(p)

\* pg_advisory_lock blocks until no other session holds the key.
LockGrantedAlways(holder) == TRUE
LockGrantable(holder) == holder = NoSession

\* `let migration_result = async { .. }.await;` then the unlock statement:
\* the unlock runs whatever the result was.
UnlocksAfter(result) == TRUE

\* `.map(|row| row.get(0)).unwrap_or(false)`: what the loop takes `applied`
\* to be when the SELECT on schema_version fails.
AppliedIfQueryFails == FALSE

\* `if version == 1 { raw_sql on the pool } else { begin; raw_sql; commit }`
InTransaction(version) == version # 1

\* Positions between the grant of the advisory lock and the unlock statement.
MigrationSequence == {"ensure_table", "check", "raw_sql", "record_v1", "begin",
                      "in_tx", "commit"}
PgStopped == {"idle", "returned_ok", "returned_err", "crashed"}

PgInit ==
    /\ pgPc = [p \in Procs |-> "idle"]
    /\ pgVersion = [p \in Procs |-> 0]
    /\ pgResult = [p \in Procs |-> "ok"]
    /\ pgLockHolder = NoSession
    /\ pgTableExists = FALSE
    /\ pgSchema = {}
    /\ pgRecorded = {}
    /\ pgStartups = 0
    /\ pgLockedOn = [p \in Procs |-> NoSession]
    /\ pgUnlockedOn = [p \in Procs |-> NoSession]
    /\ pgRanRecorded = {}

\* The migration sequence ends with `result`: on to the unlock statement.
PgEndSequence(p, result) ==
    /\ pgResult' = [pgResult EXCEPT ![p] = result]
    /\ IF UnlocksAfter(result)
       THEN pgPc' = [pgPc EXCEPT ![p] = "unlock"]
       ELSE pgPc' = [pgPc EXCEPT ![p] = "returned_err"]

\* connect(): PgPool::connect, then run_migrations acquires lock_conn.
pg_connect(p) ==
    /\ pgPc[p] \in PgStopped
    /\ pgStartups < MaxStartups
    /\ pgStartups' = pgStartups + 1
    /\ \/ pgPc' = [pgPc EXCEPT ![p] = "lock_wait"]
       \/ pgPc' = [pgPc EXCEPT ![p] = "returned_err"]
    /\ pgVersion' = [pgVersion EXCEPT ![p] = 0]
    /\ pgResult' = [pgResult EXCEPT ![p] = "ok"]
    /\ pgLockedOn' = [pgLockedOn EXCEPT ![p] = NoSession]
    /\ pgUnlockedOn' = [pgUnlockedOn EXCEPT ![p] = NoSession]
    /\ UNCHANGED <<pgLockHolder, pgTableExists, pgSchema, pgRecorded,
                   pgRanRecorded, nonPgVars>>

\* SELECT pg_advisory_lock($1) on lock_conn returns.
pg_advisory_lock(p) ==
    /\ pgPc[p] = "lock_wait"
    /\ LockGrantable(pgLockHolder)
    /\ pgLockHolder' = lock_conn(p)
    /\ pgLockedOn' = [pgLockedOn EXCEPT ![p] = lock_conn(p)]
    /\ pgPc' = [pgPc EXCEPT ![p] = "ensure_table"]
    /\ UNCHANGED <<pgVersion, pgResult, pgTableExists, pgSchema, pgRecorded, pgStartups,
                   pgUnlockedOn, pgRanRecorded, nonPgVars>>

\* SELECT pg_advisory_lock($1) fails: `?` returns before anything is locked.
pg_advisory_lock_fails(p) ==
    /\ pgPc[p] = "lock_wait"
    /\ pgPc' = [pgPc EXCEPT ![p] = "returned_err"]
    /\ UNCHANGED <<pgVersion, pgResult, pgLockHolder, pgTableExists, pgSchema, pgRecorded,
                   pgStartups, pgLockedOn, pgUnlockedOn, pgRanRecorded, nonPgVars>>

\* CREATE TABLE IF NOT EXISTS schema_version
pg_ensure_table(p) ==
    /\ pgPc[p] = "ensure_table"
    /\ \/ /\ pgTableExists' = TRUE
          /\ pgPc' = [pgPc EXCEPT ![p] = "check"]
          /\ pgVersion' = [pgVersion EXCEPT ![p] = 1]
          /\ UNCHANGED pgResult
       \/ /\ PgEndSequence(p, "err")
          /\ UNCHANGED <<pgTableExists, pgVersion>>
    /\ UNCHANGED <<pgLockHolder, pgSchema, pgRecorded, pgStartups, pgLockedOn,
                   pgUnlockedOn, pgRanRecorded, nonPgVars>>

\* One iteration of `for (version, sql) in migrations` up to `if !applied`.
pg_check_applied(p) ==
    /\ pgPc[p] = "check"
    /\ LET v == pgVersion[p] IN
       \E applied \in {v \in pgRecorded, AppliedIfQueryFails} :
          IF applied
          THEN IF v < LAST_MIGRATION
               THEN /\ pgVersion' = [pgVersion EXCEPT ![p] = v + 1]
                    /\ UNCHANGED <<pgPc, pgResult>>
               ELSE /\ PgEndSequence(p, "ok")
                    /\ UNCHANGED pgVersion
          ELSE /\ pgPc' = [pgPc EXCEPT ![p] =
                              IF InTransaction(v) THEN "begin" ELSE "raw_sql"]
               /\ UNCHANGED <<pgVersion, pgResult>>
    /\ UNCHANGED <<pgLockHolder, pgTableExists, pgSchema, pgRecorded, pgStartups,
                   pgLockedOn, pgUnlockedOn, pgRanRecorded, nonPgVars>>

\* After a migration: the next one, or the end of the sequence.
PgNextMigration(p) ==
    IF pgVersion[p] < LAST_MIGRATION
    THEN /\ pgVersion' = [pgVersion EXCEPT ![p] = @ + 1]
         /\ pgPc' = [pgPc EXCEPT ![p] = "check"]
         /\ UNCHANGED pgResult
    ELSE /\ PgEndSequence(p, "ok")
         /\ UNCHANGED pgVersion

\* What the SQL file of a migration changes when it takes effect: its schema
\* objects and its row of schema_version.
MigrationEffect(v) == [schema |-> {v}, recorded |-> {v}]

\* Migration 1, outside any transaction: raw_sql(sql).execute(&self.pool).
\* Its statements are idempotent (IF NOT EXISTS) and take effect one by one:
\* first the schema objects ..
pg_raw_sql(p) ==
    /\ pgPc[p] = "raw_sql"
    /\ pgRanRecorded' = pgRanRecorded \cup ({pgVersion[p]} \cap pgRecorded)
    /\ \/ /\ pgSchema' = pgSchema \cup MigrationEffect(pgVersion[p]).schema
          /\ pgPc' = [pgPc EXCEPT ![p] = "record_v1"]
          /\ UNCHANGED pgResult
       \/ /\ PgEndSequence(p, "err")
          /\ UNCHANGED pgSchema
    /\ UNCHANGED <<pgVersion, pgLockHolder, pgTableExists, pgRecorded, pgStartups,
                   pgLockedOn, pgUnlockedOn, nonPgVars>>

\* .. then its row of schema_version.
pg_record_v1(p) ==
    /\ pgPc[p] = "record_v1"
    /\ \/ /\ pgRecorded' = pgRecorded \cup MigrationEffect(pgVersion[p]).recorded
          /\ PgNextMigration(p)
       \/ /\ PgEndSequence(p, "err")
          /\ UNCHANGED <<pgRecorded, pgVersion>>
    /\ UNCHANGED <<pgLockHolder, pgTableExists, pgSchema, pgStartups, pgLockedOn,
                   pgUnlockedOn, pgRanRecorded, nonPgVars>>

\* let mut tx = self.pool.begin().await?;
pg_begin(p) ==
    /\ pgPc[p] = "begin"
    /\ \/ pgPc' = [pgPc EXCEPT ![p] = "in_tx"] /\ UNCHANGED pgResult
       \/ PgEndSequence(p, "err")
    /\ UNCHANGED <<pgVersion, pgLockHolder, pgTableExists, pgSchema, pgRecorded,
                   pgStartups, pgLockedOn, pgUnlockedOn, pgRanRecorded, nonPgVars>>

\* raw_sql(sql).execute(&mut *tx).await?: nothing is visible before the commit;
\* on an error the transaction is dropped, which rolls it back.
pg_execute_in_tx(p) ==
    /\ pgPc[p] = "in_tx"
    /\ pgRanRecorded' = pgRanRecorded \cup ({pgVersion[p]} \cap pgRecorded)
    /\ \/ pgPc' = [pgPc EXCEPT ![p] = "commit"] /\ UNCHANGED pgResult
       \/ PgEndSequence(p, "err")
    /\ UNCHANGED <<pgVersion, pgLockHolder, pgTableExists, pgSchema, pgRecorded,
                   pgStartups, pgLockedOn, pgUnlockedOn, nonPgVars>>

\* tx.commit().await?
pg_commit(p) ==
    /\ pgPc[p] = "commit"
    /\ \/ /\ pgSchema' = pgSchema \cup MigrationEffect(pgVersion[p]).schema
          /\ pgRecorded' = pgRecorded \cup MigrationEffect(pgVersion[p]).recorded
          /\ PgNextMigration(p)
       \/ /\ PgEndSequence(p, "err")
          /\ UNCHANGED <<pgSchema, pgRecorded, pgVersion>>
    /\ UNCHANGED <<pgLockHolder, pgTableExists, pgStartups, pgLockedOn, pgUnlockedOn,
                   pgRanRecorded, nonPgVars>>

\* SELECT pg_advisory_unlock($1), then `migration_result?; unlock_result?`.
\* The statement releases the key only if its session holds it. If the
\* statement fails, connect() returns the error and drops the pool, which
\* ends the sessions of this process.
pg_advisory_unlock(p) ==
    /\ pgPc[p] = "unlock"
    /\ \/ /\ pgLockHolder' = IF pgLockHolder = unlock_conn(p) THEN NoSession
                                                              ELSE pgLockHolder
          /\ pgUnlockedOn' = [pgUnlockedOn EXCEPT ![p] = unlock_conn(p)]
          /\ pgPc' = [pgPc EXCEPT ![p] =
                         IF pgResult[p] = "ok" THEN "returned_ok" ELSE "returned_err"]
       \/ /\ pgLockHolder' = IF pgLockHolder[1] = p THEN NoSession ELSE pgLockHolder
          /\ pgPc' = [pgPc EXCEPT ![p] = "returned_err"]
          /\ UNCHANGED pgUnlockedOn
    /\ UNCHANGED <<pgVersion, pgResult, pgTableExists, pgSchema, pgRecorded, pgStartups,
                   pgLockedOn, pgRanRecorded, nonPgVars>>

\* The process stops: the server ends its sessions, releasing their
\* advisory locks and rolling back their open transactions.
pg_crash(p) ==
    /\ pgPc[p] \notin PgStopped
    /\ pgPc' = [pgPc EXCEPT ![p] = "crashed"]
    /\ pgLockHolder' = IF pgLockHolder[1] = p THEN NoSession ELSE pgLockHolder
    /\ UNCHANGED <<pgVersion, pgResult, pgTableExists, pgSchema, pgRecorded, pgStartups,
                   pgLockedOn, pgUnlockedOn, pgRanRecorded, nonPgVars>>

PgNext ==
    \E p \in Procs :
        \/ pg_connect(p)
        \/ pg_advisory_lock(p)
        \/ pg_advisory_lock_fails(p)
        \/ pg_ensure_table(p)
        \/ pg_check_applied(p)
        \/ pg_raw_sql(p)
        \/ pg_record_v1(p)
        \/ pg_begin(p)
        \/ pg_execute_in_tx(p)
        \/ pg_commit(p)
        \/ pg_advisory_unlock(p)
        \/ pg_crash(p)

(***************************************************************************)
(* db/schema.rs: create_tables and run_migration (SQLite)                  *)
(*                                                                         *)
(* One process at a time opens the database file and runs create_tables.   *)
(* Every statement runs in autocommit mode, may fail, and the process may  *)
(* stop between any two statements.                                        *)
(***************************************************************************)
\* run_migration(conn, 2, ..) and run_migration(conn, 3, ..)
SqliteMigrations == {2, 3}
LAST_SQLITE_MIGRATION == 3

SqStopped == {"idle", "done", "failed", "crashed"}

SqInit ==
    /\ sqPc = "idle"
    /\ sqVersion = 0
    /\ sqTables = FALSE
    /\ sqColumns = {}
    /\ sqRecorded = {}
    /\ sqStartups = 0
    /\ sqDuplicateColumn = {}

\* db::initialize opens the file and calls create_tables.
sq_open ==
    /\ sqPc \in SqStopped
    /\ sqStartups < MaxStartups
    /\ sqStartups' = sqStartups + 1
    /\ sqPc' = "create_tables"
    /\ sqVersion' = 0
    /\ UNCHANGED <<sqTables, sqColumns, sqRecorded, sqDuplicateColumn, nonSqVars>>

\* execute_batch("CREATE TABLE IF NOT EXISTS ..")
sq_create_tables ==
    /\ sqPc = "create_tables"
    /\ \/ sqTables' = TRUE /\ sqPc' = "record_v1"
       \/ sqPc' = "failed" /\ UNCHANGED sqTables
    /\ UNCHANGED <<sqVersion, sqColumns, sqRecorded, sqStartups, sqDuplicateColumn,
                   nonSqVars>>

\* INSERT OR IGNORE INTO schema_version (version) VALUES (1)
sq_record_v1 ==
    /\ sqPc = "record_v1"
    /\ \/ /\ sqRecorded' = sqRecorded \cup {1}
          /\ sqPc' = "check"
          /\ sqVersion' = 2
       \/ /\ sqPc' = "failed"
          /\ UNCHANGED <<sqRecorded, sqVersion>>
    /\ UNCHANGED <<sqTables, sqColumns, sqStartups, sqDuplicateColumn, nonSqVars>>

\* After run_migration(version) returned Ok: the next migration or Ok(()).
SqNextMigration ==
    IF sqVersion < LAST_SQLITE_MIGRATION
    THEN sqVersion' = sqVersion + 1 /\ sqPc' = "check"
    ELSE sqVersion' = sqVersion /\ sqPc' = "done"

\* run_migration: SELECT COUNT(*) > 0 FROM schema_version WHERE version = ?1
sq_check_applied ==
    /\ sqPc = "check"
    /\ \/ IF sqVersion \in sqRecorded
          THEN SqNextMigration
          ELSE sqPc' = "migrate" /\ UNCHANGED sqVersion
       \/ sqPc' = "failed" /\ UNCHANGED sqVersion
    /\ UNCHANGED <<sqTables, sqColumns, sqRecorded, sqStartups, sqDuplicateColumn,
                   nonSqVars>>

\* ALTER TABLE .. ADD COLUMN ..: an error if the column is already there.
AddColumn(columns, v) ==
    IF v \in columns THEN [ok |-> FALSE, columns |-> columns]
    ELSE [ok |-> TRUE, columns |-> columns \cup {v}]

\* run_migration: migrate(conn).with_context(..)?
sq_migrate ==
    /\ sqPc = "migrate"
    /\ \/ LET r == AddColumn(sqColumns, sqVersion) IN
          /\ sqColumns' = r.columns
          /\ sqPc' = IF r.ok THEN "insert" ELSE "failed"
          /\ sqDuplicateColumn' =
                IF r.ok THEN sqDuplicateColumn ELSE sqDuplicateColumn \cup {sqVersion}
       \/ /\ sqPc' = "failed"
          /\ UNCHANGED <<sqColumns, sqDuplicateColumn>>
    /\ UNCHANGED <<sqVersion, sqTables, sqRecorded, sqStartups, nonSqVars>>

\* run_migration: INSERT INTO schema_version (version) VALUES (?1)
sq_insert_version ==
    /\ sqPc = "insert"
    /\ \/ /\ sqRecorded' = sqRecorded \cup {sqVersion}
          /\ SqNextMigration
       \/ /\ sqPc' = "failed"
          /\ UNCHANGED <<sqRecorded, sqVersion>>
    /\ UNCHANGED <<sqTables, sqColumns, sqStartups, sqDuplicateColumn, nonSqVars>>

\* The process stops between two statements.
sq_crash ==
    /\ sqPc \notin SqStopped
    /\ sqPc' = "crashed"
    /\ UNCHANGED <<sqVersion, sqTables, sqColumns, sqRecorded, sqStartups,
                   sqDuplicateColumn, nonSqVars>>

SqNext ==
    \/ sq_open
    \/ sq_create_tables
    \/ sq_record_v1
    \/ sq_check_applied
    \/ sq_migrate
    \/ sq_insert_version
    \/ sq_crash

(***************************************************************************)
(* toxicity/rate_limiter.rs: RateLimiter                                   *)
(*                                                                         *)
(* As for the network limiter, the model stores the age of last_request.   *)
(* The tokio Mutex is held from `lock().await` to the drop of the guard,   *)
(* so each stretch of acquire() under the guard is one step.               *)
(***************************************************************************)
TxInit ==
    /\ txLast = NoInstant
    /\ txPc = [t \in Tasks |-> "idle"]
    /\ txSleep = [t \in Tasks |-> 0]
    /\ txSinceGrant = NoInstant
    /\ txLastGap = NoInstant

\* acquire() returns: `inner.last_request = Some(Instant::now())`.
tx_grant(t) ==
    /\ txLast' = 0
    /\ txPc' = [txPc EXCEPT ![t] = "request"]
    /\ txLastGap' = txSinceGrant
    /\ txSinceGrant' = 0

\* After the sleep the guard is re-acquired and last_request is set, without
\* looking at it again.
tx_after_sleep(t) ==
    /\ tx_grant(t)
    /\ UNCHANGED txSleep

\* score_text calls acquire(). Up to its first await after the lock acquire()
\* either returns at once, or drops the guard and sleeps for the rest of the
\* interval.
tx_acquire(t) ==
    /\ txPc[t] = "idle"
    /\ IF txLast # NoInstant /\ txLast < interval
       THEN /\ txPc' = [txPc EXCEPT ![t] = "sleeping"]
            /\ txSleep' = [txSleep EXCEPT ![t] = interval - txLast]
            /\ UNCHANGED <<txLast, txSinceGrant, txLastGap>>
       ELSE /\ tx_grant(t)
            /\ UNCHANGED txSleep
    /\ UNCHANGED nonTxVars

\* The sleep has elapsed and the guard is free.
tx_wake(t) ==
    /\ txPc[t] = "sleeping"
    /\ txSleep[t] = 0
    /\ tx_after_sleep(t)
    /\ UNCHANGED nonTxVars

\* score_text after acquire(): the request to the backend and its response.
score_text_returns(t) ==
    /\ txPc[t] = "request"
    /\ txPc' = [txPc EXCEPT ![t] = "idle"]
    /\ UNCHANGED <<txLast, txSleep, txSinceGrant, txLastGap>>
    /\ UNCHANGED nonTxVars

TxTick ==
    /\ txLast' = Aged(txLast, interval)
    /\ txSinceGrant' = Aged(txSinceGrant, interval)
    /\ txSleep' = [t \in Tasks |-> Max(txSleep[t] - 1, 0)]
    /\ UNCHANGED <<txPc, txLastGap>>
    /\ UNCHANGED nonTxVars

TxNext ==
    \/ \E t \in Tasks : tx_acquire(t)
    \/ \E t \in Tasks : tx_wake(t)
    \/ \E t \in Tasks : score_text_returns(t)
    \/ TxTick

(***************************************************************************)
(* db/queries.rs, db/sqlite.rs, db/postgres.rs: the Database operations on *)
(* account_scores and topic_fingerprint                                    *)
(*                                                                         *)
(* A table is the set of its rows. Scores are in tenths of a point, an     *)
(* Option is a sequence of at most one element, scored_at is kept as its   *)
(* age in clock ticks (0: written now, 1: earlier).                        *)
(***************************************************************************)
Backends == {"sqlite", "postgres"}

\* Texts that serde_json::from_str accepts.
ValidJson == {"{\"quote_ratio\":0.1}"}

\* AccountScore values handed to upsert_account_score: a scored account,
\* the same account rescored, an account with too few posts, accounts whose
\* tier string does not match their score, and scores on the tier thresholds.
ScoreSamples ==
    {[did |-> "d1", threat_score |-> <<259>>, threat_tier |-> <<"Low">>,
      posts_analyzed |-> 20, behavioral_signals |-> <<"{\"quote_ratio\":0.1}">>],
     [did |-> "d1", threat_score |-> <<260>>, threat_tier |-> <<"Low">>,
      posts_analyzed |-> 20, behavioral_signals |-> << >>],
     [did |-> "d1", threat_score |-> << >>, threat_tier |-> <<"Insufficient Data">>,
      posts_analyzed |-> 3, behavioral_signals |-> << >>],
     [did |-> "d2", threat_score |-> <<760>>, threat_tier |-> <<"High">>,
      posts_analyzed |-> 20, behavioral_signals |-> << >>],
     [did |-> "d2", threat_score |-> <<509>>, threat_tier |-> <<"High">>,
      posts_analyzed |-> 20, behavioral_signals |-> << >>],
     [did |-> "d2", threat_score |-> <<510>>, threat_tier |-> << >>,
      posts_analyzed |-> 20, behavioral_signals |-> << >>]}

\* The values of min_score the callers pass: 0.0 and a report threshold.
MinScoreSamples == {0, 260}

\* PostgreSQL binds behavioral_signals as
\* `score.behavioral_signals.as_ref().and_then(|s| serde_json::from_str(s).ok())`.
ParsedSignals(signals) == SelectSeq(signals, LAMBDA s : s \in ValidJson)

\* The column values the INSERT binds, per backend. posts_analyzed counts
\* the posts of one fetched sample, far inside the range where PostgreSQL's
\* `as i32` / `as u32` casts change nothing.
BoundRow(score, b) ==
    [did |-> score.did,
     threat_score |-> score.threat_score,
     threat_tier |-> score.threat_tier,
     posts_analyzed |-> score.posts_analyzed,
     behavioral_signals |-> IF b = "postgres" THEN ParsedSignals(score.behavioral_signals)
                            ELSE score.behavioral_signals,
     scored_at |-> 0]

\* INSERT OR IGNORE: a conflicting row is left as it is.
InsertOrIgnore(rows, score, b) ==
    IF \E r \in rows : r.did = score.did THEN rows
    ELSE rows \cup {BoundRow(score, b)}

\* INSERT .. ON CONFLICT(did) DO UPDATE SET <every column>, scored_at = now.
InsertOnConflictUpdate(rows, score, b) ==
    {r \in rows : r.did # score.did} \cup {BoundRow(score, b)}

\* ThreatTier::from_score(..).to_string()
from_score(s) ==
    IF s >= 760 THEN "High"
    ELSE IF s >= 510 THEN "Elevated"
    ELSE IF s >= 260 THEN "Watch"
    ELSE "Low"

\* The tier column returned as it was stored.
StoredTier(r) == r.threat_tier

\* `threat_score.map(|s| ThreatTier::from_score(s).to_string())`
RecomputedTier(r) == [i \in DOMAIN r.threat_score |-> from_score(r.threat_score[i])]

\* One row of the result of get_ranked_threats.
RankedRow(r) ==
    [did |-> r.did,
     threat_score |-> r.threat_score,
     threat_tier |-> RecomputedTier(r),
     posts_analyzed |-> r.posts_analyzed]

\* `WHERE threat_score >= min_score ORDER BY threat_score DESC`: a NULL
\* score satisfies no comparison.
RECURSIVE OrderByScoreDesc(_)
OrderByScoreDesc(rows) ==
    IF rows = {} THEN << >>
    ELSE LET top == CHOOSE r \in rows :
                        \A q \in rows : q.threat_score[1] <= r.threat_score[1]
         IN <<top>> \o OrderByScoreDesc(rows \ {top})

SelectRanked(rows, min_score) ==
    OrderByScoreDesc({r \in rows : r.threat_score # << >> /\ r.threat_score[1] >= min_score})

\* What save_embedding returns when its UPDATE .. WHERE id = 1 has changed
\* `affected` rows: PostgreSQL bails on rows_affected() == 0, SQLite returns
\* Ok(()) after conn.execute(..)?.
SaveEmbeddingResult(b, affected) ==
    IF b = "postgres" /\ affected = 0 THEN "err" ELSE "ok"

NoFingerprint == {}

StorageInit ==
    /\ stBackend = "none"
    /\ stScores = {}
    /\ stFingerprint = NoFingerprint
    /\ stCall = [seq |-> 0, op |-> "none", result |-> "none", repeated |-> FALSE]
    /\ stArg = {}
    /\ stReturned = << >>

Called(op, result, repeated) ==
    [seq |-> 1 - stCall.seq, op |-> op, result |-> result, repeated |-> repeated]

\* open_database: the backend is chosen once, from the configuration.
db_open(b) ==
    /\ stBackend = "none"
    /\ stBackend' = b
    /\ UNCHANGED <<stScores, stFingerprint, stCall, stArg, stReturned>>
    /\ UNCHANGED nonStVars

db_upsert_account_score(score) ==
    /\ stBackend # "none"
    /\ stScores' = InsertOnConflictUpdate(stScores, score, stBackend)
    /\ stCall' = Called("upsert_account_score", "ok",
                        stCall.op = "upsert_account_score" /\ stArg = {score})
    /\ stArg' = {score}
    /\ UNCHANGED <<stBackend, stFingerprint, stReturned>>
    /\ UNCHANGED nonStVars

db_get_ranked_threats(min_score) ==
    /\ stBackend # "none"
    /\ stReturned' = [i \in DOMAIN SelectRanked(stScores, min_score) |->
                        RankedRow(SelectRanked(stScores, min_score)[i])]
    /\ stCall' = Called("get_ranked_threats", "ok", FALSE)
    /\ stArg' = {[min_score |-> min_score]}
    /\ UNCHANGED <<stBackend, stScores, stFingerprint>>
    /\ UNCHANGED nonStVars

\* save_fingerprint: the singleton row is inserted, or its fingerprint_json
\* and post_count are replaced; embedding_vector is not touched.
db_save_fingerprint ==
    /\ stBackend # "none"
    /\ stFingerprint' = IF stFingerprint = NoFingerprint
                        THEN {[id |-> 1, embedding_vector |-> << >>]}
                        ELSE stFingerprint
    /\ stCall' = Called("save_fingerprint", "ok", FALSE)
    /\ stArg' = {}
    /\ UNCHANGED <<stBackend, stScores, stReturned>>
    /\ UNCHANGED nonStVars

db_save_embedding ==
    /\ stBackend # "none"
    /\ stFingerprint' = {[r EXCEPT !.embedding_vector = <<"vec">>] : r \in stFingerprint}
    /\ stCall' = Called("save_embedding",
                        SaveEmbeddingResult(stBackend, Cardinality(stFingerprint)), FALSE)
    /\ stArg' = {}
    /\ UNCHANGED <<stBackend, stScores, stReturned>>
    /\ UNCHANGED nonStVars

\* Time passes between two calls: rows written now become rows written earlier.
StorageTick ==
    /\ stScores # {}
    /\ stScores' = {[r EXCEPT !.scored_at = 1] : r \in stScores}
    /\ stScores' # stScores
    /\ UNCHANGED <<stBackend, stFingerprint, stCall, stArg, stReturned>>
    /\ UNCHANGED nonStVars

StorageNext ==
    \/ \E b \in Backends : db_open(b)
    \/ \E score \in ScoreSamples : db_upsert_account_score(score)
    \/ \E min_score \in MinScoreSamples : db_get_ranked_threats(min_score)
    \/ db_save_fingerprint
    \/ db_save_embedding
    \/ StorageTick

(***************************************************************************)
(* scoring/behavioral.rs: detect_pile_on_participants, and the tuples      *)
(* get_events_for_pile_on hands it                                         *)
(*                                                                         *)
(* A timestamp text is modelled by what its characters say: the clock      *)
(* reading it shows (seconds since a base midnight), the UTC offset it     *)
(* ends with, and its format. The instant it denotes is clock - offset.    *)
(***************************************************************************)
PILE_ON_THRESHOLD == 5
PILE_ON_WINDOW_SECS == 24 * 60 * 60

Hours(h) == h * 60 * 60

Rfc3339(clockHours, offsetHours) ==
    [clock |-> Hours(clockHours), offset |-> Hours(offsetHours), fmt |-> "rfc3339"]

\* The text of `datetime('now')` (SQLite) and of
\* `to_char(detected_at, 'YYYY-MM-DD HH24:MI:SS')` (PostgreSQL) for an
\* instant: the UTC clock reading, a space between date and time, no offset.
SqlDatetime(instant) == [clock |-> instant, offset |-> 0, fmt |-> "sql"]

\* chrono::DateTime::parse_from_rfc3339(ts).ok().map(|dt| dt.timestamp()):
\* text without a UTC offset is rejected.
parse_from_rfc3339(ts) ==
    IF ts.fmt = "rfc3339" THEN <<ts.clock - ts.offset>> ELSE << >>

\* The order of the offset suffixes as strings: "+hh:mm" before "-hh:mm"
\* ('+' < '-'), and by digits within one sign.
OffsetRank(off) == IF off >= 0 THEN off ELSE Hours(24) - off

\* String order of two timestamp texts of one format: the date and time
\* digits first, the offset suffix last.
TextLeq(a, b) ==
    \/ a.clock < b.clock
    \/ a.clock = b.clock /\ OffsetRank(a.offset) <= OffsetRank(b.offset)

\* `post_events.sort_by_key(|&(_, ts)| ts.to_string())`: a stable sort on
\* the text of the timestamp.
RECURSIVE InsertByKey(_, _)
InsertByKey(sorted, e) ==
    IF sorted = << >> THEN <<e>>
    ELSE IF TextLeq(sorted[Len(sorted)].ts, e.ts) THEN Append(sorted, e)
    ELSE Append(InsertByKey(SubSeq(sorted, 1, Len(sorted) - 1), e), sorted[Len(sorted)])

RECURSIVE SortByKey(_)
SortByKey(evs) ==
    IF evs = << >> THEN << >>
    ELSE InsertByKey(SortByKey(SubSeq(evs, 1, Len(evs) - 1)), evs[Len(evs)])

\* by_post[uri]: the events of one post, in input order.
ByPost(evs, uri) == SelectSeq(evs, LAMBDA e : e.uri = uri)

\* `parsed`: the sorted events whose timestamp parses, with their instants.
Parsed(postEvents) ==
    LET sorted == SortByKey(postEvents)
        ok == SelectSeq(sorted, LAMBDA e : parse_from_rfc3339(e.ts) # << >>)
    IN [k \in DOMAIN ok |-> [did |-> ok[k].did, secs |-> parse_from_rfc3339(ok[k].ts)[1]]]

\* The inner loop from position i: dids are collected until the first event
\* later than window_end (`break`).
UniqueDids(parsed, i) ==
    LET window_end == parsed[i].secs + PILE_ON_WINDOW_SECS
        past == {j \in i..Len(parsed) : parsed[j].secs > window_end}
        stop == IF past = {} THEN Len(parsed) + 1
                ELSE CHOOSE j \in past : \A k \in past : j <= k
    IN {parsed[j].did : j \in i..(stop - 1)}

PostParticipants(parsed) ==
    IF Len(parsed) < PILE_ON_THRESHOLD THEN {}
    ELSE UNION {UniqueDids(parsed, i) : i \in {k \in DOMAIN parsed :
                    Cardinality(UniqueDids(parsed, k)) >= PILE_ON_THRESHOLD}}

detect_pile_on_participants(evs) ==
    UNION {PostParticipants(Parsed(ByPost(evs, uri))) : uri \in {evs[k].uri : k \in DOMAIN evs}}

\* Event triples handed to the detector: a cluster of five amplifiers on p1
\* within 23 hours, a repeated amplifier, an event on another post, a late
\* event, and events whose timestamps carry other UTC offsets.
PileOnSamples ==
    {[did |-> "a1", uri |-> "p1", ts |-> Rfc3339(0, 0)],
     [did |-> "a2", uri |-> "p1", ts |-> Rfc3339(20, 0)],
     [did |-> "a3", uri |-> "p1", ts |-> Rfc3339(21, 0)],
     [did |-> "a4", uri |-> "p1", ts |-> Rfc3339(22, 0)],
     [did |-> "a5", uri |-> "p1", ts |-> Rfc3339(23, 0)],
     [did |-> "a1", uri |-> "p1", ts |-> Rfc3339(1, 0)],
     [did |-> "a5", uri |-> "p2", ts |-> Rfc3339(23, 0)],
     [did |-> "a6", uri |-> "p1", ts |-> Rfc3339(50, 0)],
     [did |-> "a6", uri |-> "p1", ts |-> Rfc3339(18, -12)],
     [did |-> "a5", uri |-> "p1", ts |-> Rfc3339(19, 14)]}

PileOnInit ==
    /\ poInput = << >>
    /\ poResult = {}
    /\ poDone = FALSE

\* The caller collects one more triple.
po_push_event(e) ==
    /\ ~poDone
    /\ Len(poInput) < MaxEvents
    /\ \A k \in DOMAIN poInput : poInput[k] # e
    /\ poInput' = Append(poInput, e)
    /\ UNCHANGED <<poResult, poDone>>
    /\ UNCHANGED nonPoVars

po_detect ==
    /\ ~poDone
    /\ poResult' = detect_pile_on_participants(poInput)
    /\ poDone' = TRUE
    /\ UNCHANGED poInput
    /\ UNCHANGED nonPoVars

PileOnNext ==
    \/ \E e \in PileOnSamples : po_push_event(e)
    \/ po_detect

(***************************************************************************)
(* The scan's pile-on context: insert_amplification_event stamps each row  *)
(* with the time of the insert, get_events_for_pile_on reads the rows      *)
(* back, detect_pile_on_participants runs on what it returned.             *)
(***************************************************************************)
Amplifiers == {"a1", "a2", "a3", "a4", "a5"}
AmplifiedPosts == {"p1", "p2"}

\* The rows of one post, `ORDER BY detected_at`.
RECURSIVE OrderByDetectedAt(_)
OrderByDetectedAt(rows) ==
    IF rows = {} THEN << >>
    ELSE LET first == CHOOSE r \in rows : \A q \in rows : r.detected_at <= q.detected_at
         IN <<first>> \o OrderByDetectedAt(rows \ {first})

\* `SELECT amplifier_did, original_post_uri, detected_at FROM
\* amplification_events ORDER BY original_post_uri, detected_at`, with
\* detected_at as the backend renders it.
get_events_for_pile_on(rows) ==
    LET ordered == OrderByDetectedAt({r \in rows : r.uri = "p1"})
                   \o OrderByDetectedAt({r \in rows : r.uri = "p2"})
    IN [k \in DOMAIN ordered |->
           [did |-> ordered[k].did, uri |-> ordered[k].uri,
            ts |-> SqlDatetime(ordered[k].detected_at)]]

PileOnScanInit ==
    /\ poTable = {}
    /\ poNow = 0
    /\ poTuples = << >>
    /\ poDetected = {}

\* insert_amplification_event: detected_at defaults to the time of the insert.
po_insert_amplification_event(did, uri) ==
    /\ poTuples = << >>
    /\ Cardinality(poTable) < MaxStored
    /\ poTable' = poTable \cup {[did |-> did, uri |-> uri, detected_at |-> poNow]}
    /\ poTable' # poTable
    /\ UNCHANGED <<poNow, poTuples, poDetected>>
    /\ UNCHANGED nonPoScanVars

\* Twelve hours pass.
po_clock ==
    /\ poTuples = << >>
    /\ poNow < Hours(12) * MaxHalfDays
    /\ poNow' = poNow + Hours(12)
    /\ UNCHANGED <<poTable, poTuples, poDetected>>
    /\ UNCHANGED nonPoScanVars

\* The behavioral context of a scan: read the events, run the detector.
po_scan ==
    /\ poTuples = << >>
    /\ poTable # {}
    /\ poTuples' = get_events_for_pile_on(poTable)
    /\ poDetected' = detect_pile_on_participants(get_events_for_pile_on(poTable))
    /\ UNCHANGED <<poTable, poNow>>
    /\ UNCHANGED nonPoScanVars

PileOnScanNext ==
    \/ \E did \in Amplifiers, uri \in AmplifiedPosts : po_insert_amplification_event(did, uri)
    \/ po_clock
    \/ po_scan

(***************************************************************************)
(* scoring/threat.rs compute_threat_score and scoring/behavioral.rs        *)
(* apply_behavioral_modifier                                               *)
(*                                                                         *)
(* Fixed point: toxicity in tenths, topic overlap in twentieths, ratios in *)
(* hundredths, engagement in tenths. A threat score is in 1/400 of a point *)
(* (Points), a boost in 1/2000, a final score in 1/800000 of a point       *)
(* (FinalPoints), so that every product of the formulas is exact.          *)
(***************************************************************************)
Points(p) == p * 400
FinalPoints(p) == Points(p) * 2000

\* ThreatWeights::default()
toxicity_weight == 70
gate_max_score == 25
overlap_gate_threshold == 3         \* 0.15, in twentieths

BENIGN_QUOTE_RATIO_MAX == 15        \* 0.15, in hundredths
BENIGN_REPLY_RATIO_MAX == 30        \* 0.30, in hundredths
BENIGN_GATE_CAP == 12

Clamp(x, lo, hi) == Max(lo, Min(x, hi))

\* The gated branch without `.min(weights.gate_max_score)`.
GatedScoreUncapped(toxicity) == toxicity * gate_max_score * 40

\* `(toxicity * weights.gate_max_score).min(weights.gate_max_score)`
GatedScore(toxicity) == Min(toxicity * gate_max_score * 40, Points(gate_max_score))

\* `toxicity * toxicity_weight * (1.0 + topic_overlap * overlap_multiplier)`
\* with overlap_multiplier = 1.5: 1 + 1.5 * o / 20 = (40 + 3 * o) / 40.
AmplifiedScore(toxicity, topic_overlap) ==
    toxicity * toxicity_weight * (40 + 3 * topic_overlap)

\* compute_threat_score: the score; its tier is from_score of it.
compute_threat_score(toxicity, topic_overlap) ==
    Clamp(IF topic_overlap < overlap_gate_threshold
          THEN GatedScore(toxicity)
          ELSE AmplifiedScore(toxicity, topic_overlap),
          0, Points(100))

\* compute_behavioral_boost, in 1/2000:
\* 1.0 + quote_ratio * 0.20 + reply_ratio * 0.15 + (0.15 if pile_on).
compute_behavioral_boost(quote_ratio, reply_ratio, pile_on) ==
    2000 + 4 * quote_ratio + 3 * reply_ratio + (IF pile_on THEN 300 ELSE 0)

\* The gate with `<=` in place of `<` on the two ratios.
IsBenignAtThreshold(quote_ratio, reply_ratio, pile_on, avg_engagement, median_engagement) ==
    /\ quote_ratio <= BENIGN_QUOTE_RATIO_MAX
    /\ reply_ratio <= BENIGN_REPLY_RATIO_MAX
    /\ ~pile_on
    /\ avg_engagement > median_engagement

is_behaviorally_benign(quote_ratio, reply_ratio, pile_on, avg_engagement, median_engagement) ==
    /\ quote_ratio < BENIGN_QUOTE_RATIO_MAX
    /\ reply_ratio < BENIGN_REPLY_RATIO_MAX
    /\ ~pile_on
    /\ avg_engagement > median_engagement

\* apply_behavioral_modifier: (modified score, benign gate applied).
apply_behavioral_modifier(raw_score, quote_ratio, reply_ratio, pile_on, avg_engagement, median_engagement) ==
    IF is_behaviorally_benign(quote_ratio, reply_ratio, pile_on,
                              avg_engagement, median_engagement)
    THEN [score |-> Min(raw_score * 2000, FinalPoints(BENIGN_GATE_CAP)), benign_gate |-> TRUE]
    ELSE [score |-> Clamp(raw_score * compute_behavioral_boost(quote_ratio, reply_ratio, pile_on),
                          0, FinalPoints(100)),
          benign_gate |-> FALSE]

\* Sampled inputs: toxicity from below 0 to above 1, overlap on both sides
\* of the gate threshold, ratios on both sides of the benign thresholds,
\* engagement below, at and above the median.
ToxicitySamples == {-5, 0, 2, 5, 10, 15}
OverlapSamples == {-1, 0, 2, 3, 10, 20}
QuoteRatioSamples == {0, 14, 15, 100}
ReplyRatioSamples == {0, 29, 30, 100}
EngagementSamples == {50, 100, 101}
MedianEngagementSamples == {0, 100}

ScoringInit ==
    /\ scInputs = {}
    /\ scThreat = {}
    /\ scSignals = {}
    /\ scFinal = {}

\* Step 5 of the profile build: the combined threat score of one account.
sc_compute_threat_score(toxicity, topic_overlap) ==
    /\ scThreat = {}
    /\ scInputs' = {[toxicity |-> toxicity, topic_overlap |-> topic_overlap]}
    /\ scThreat' = {compute_threat_score(toxicity, topic_overlap)}
    /\ UNCHANGED <<scSignals, scFinal>>
    /\ UNCHANGED nonScVars

\* The behavioral modifier applied to that score.
sc_apply_behavioral_modifier(quote_ratio, reply_ratio, pile_on, avg_engagement, median_engagement) ==
    /\ scThreat # {}
    /\ scFinal = {}
    /\ scSignals' = {[quote_ratio |-> quote_ratio, reply_ratio |-> reply_ratio,
                      pile_on |-> pile_on, avg_engagement |-> avg_engagement,
                      median_engagement |-> median_engagement]}
    /\ scFinal' = {apply_behavioral_modifier(raw_score, quote_ratio, reply_ratio, pile_on,
                                             avg_engagement, median_engagement) :
                      raw_score \in scThreat}
    /\ UNCHANGED <<scInputs, scThreat>>
    /\ UNCHANGED nonScVars

ScoringNext ==
    \/ \E toxicity \in ToxicitySamples, topic_overlap \in OverlapSamples :
          sc_compute_threat_score(toxicity, topic_overlap)
    \/ \E quote_ratio \in QuoteRatioSamples, reply_ratio \in ReplyRatioSamples,
          pile_on \in BOOLEAN, avg_engagement \in EngagementSamples,
          median_engagement \in MedianEngagementSamples :
          sc_apply_behavioral_modifier(quote_ratio, reply_ratio, pile_on,
                                       avg_engagement, median_engagement)

(***************************************************************************)
(* scoring/profile.rs build_profile and the caller's write of its result   *)
(***************************************************************************)
ProfiledAccounts == {"d1", "d2"}

\* Sizes of the sample fetch_recent_posts(.., 50) returns, on both sides
\* of the minimum.
PostCountSamples == {0, 4, 5, 6}

\* The minimum with `< 4` in place of `< 5`.
InsufficientBelowFour(target_posts_len) == target_posts_len < 4

\* `if target_posts.len() < 5`
InsufficientPosts(target_posts_len) == target_posts_len < 5

\* The AccountScore of the early return.
InsufficientDataScore(did, target_posts_len) ==
    [did |-> did,
     toxicity_score |-> << >>,
     topic_overlap |-> << >>,
     threat_score |-> << >>,
     threat_tier |-> <<"Insufficient Data">>,
     posts_analyzed |-> target_posts_len]

\* The AccountScore of a scored account; the tier is from_score of the
\* threat score (from_score takes tenths of a point).
ScoredAccountScore(did, target_posts_len, avg_toxicity, topic_overlap) ==
    LET threat_score == compute_threat_score(avg_toxicity, topic_overlap)
    IN [did |-> did,
        toxicity_score |-> <<avg_toxicity>>,
        topic_overlap |-> <<topic_overlap>>,
        threat_score |-> <<threat_score>>,
        threat_tier |-> <<from_score(threat_score \div 40)>>,
        posts_analyzed |-> target_posts_len]

\* `Ok(score) => queries::upsert_account_score(conn, &score)?`: the row of
\* score.did is replaced by the values of score.
WriteProfile(rows, score) == {r \in rows : r.did # score.did} \cup {score}

ProfileInit ==
    /\ bpPc = [a \in ProfiledAccounts |-> "idle"]
    /\ bpPosts = [a \in ProfiledAccounts |-> << >>]
    /\ bpToxicity = [a \in ProfiledAccounts |-> << >>]
    /\ bpResult = [a \in ProfiledAccounts |-> << >>]
    /\ bpScorerCalls = {}
    /\ bpFormulaCalls = {}
    /\ bpTable = {}

\* Step 1: fetch_recent_posts(agent, target_handle, 50).await? returned a sample.
bp_fetch_recent_posts(a, n) ==
    /\ bpPc[a] = "idle"
    /\ bpPosts' = [bpPosts EXCEPT ![a] = <<n>>]
    /\ bpPc' = [bpPc EXCEPT ![a] = "fetched"]
    /\ UNCHANGED <<bpToxicity, bpResult, bpScorerCalls, bpFormulaCalls, bpTable>>
    /\ UNCHANGED nonBpVars

\* A `?` of build_profile returned the error: the caller logs and skips.
bp_error(a) ==
    /\ bpPc[a] \in {"idle", "scoring", "scored"}
    /\ bpPc' = [bpPc EXCEPT ![a] = "skipped"]
    /\ UNCHANGED <<bpPosts, bpToxicity, bpResult, bpScorerCalls, bpFormulaCalls, bpTable>>
    /\ UNCHANGED nonBpVars

\* The early return for a sample that is too small.
bp_insufficient(a) ==
    /\ bpPc[a] = "fetched"
    /\ InsufficientPosts(bpPosts[a][1])
    /\ bpResult' = [bpResult EXCEPT ![a] = <<InsufficientDataScore(a, bpPosts[a][1])>>]
    /\ bpPc' = [bpPc EXCEPT ![a] = "returned"]
    /\ UNCHANGED <<bpPosts, bpToxicity, bpScorerCalls, bpFormulaCalls, bpTable>>
    /\ UNCHANGED nonBpVars

\* Step 2: scorer.score_batch(&post_texts) is called.
bp_score_batch(a) ==
    /\ bpPc[a] = "fetched"
    /\ ~InsufficientPosts(bpPosts[a][1])
    /\ bpScorerCalls' = bpScorerCalls \cup {a}
    /\ bpPc' = [bpPc EXCEPT ![a] = "scoring"]
    /\ UNCHANGED <<bpPosts, bpToxicity, bpResult, bpFormulaCalls, bpTable>>
    /\ UNCHANGED nonBpVars

\* score_batch returned; the weighted average of the results.
bp_avg_toxicity(a, avg_toxicity) ==
    /\ bpPc[a] = "scoring"
    /\ bpToxicity' = [bpToxicity EXCEPT ![a] = <<avg_toxicity>>]
    /\ bpPc' = [bpPc EXCEPT ![a] = "scored"]
    /\ UNCHANGED <<bpPosts, bpResult, bpScorerCalls, bpFormulaCalls, bpTable>>
    /\ UNCHANGED nonBpVars

\* Steps 3 to 5: topic fingerprint, overlap, compute_threat_score, Ok(..).
bp_compute_threat_score(a, topic_overlap) ==
    /\ bpPc[a] = "scored"
    /\ bpFormulaCalls' = bpFormulaCalls \cup {a}
    /\ bpResult' = [bpResult EXCEPT ![a] =
                       <<ScoredAccountScore(a, bpPosts[a][1], bpToxicity[a][1], topic_overlap)>>]
    /\ bpPc' = [bpPc EXCEPT ![a] = "returned"]
    /\ UNCHANGED <<bpPosts, bpToxicity, bpScorerCalls, bpTable>>
    /\ UNCHANGED nonBpVars

\* The caller writes the Ok(score) it received.
bp_upsert_account_score(a) ==
    /\ bpPc[a] = "returned"
    /\ bpTable' = WriteProfile(bpTable, bpResult[a][1])
    /\ bpPc' = [bpPc EXCEPT ![a] = "persisted"]
    /\ UNCHANGED <<bpPosts, bpToxicity, bpResult, bpScorerCalls, bpFormulaCalls>>
    /\ UNCHANGED nonBpVars

ProfileNext ==
    \/ \E a \in ProfiledAccounts, n \in PostCountSamples : bp_fetch_recent_posts(a, n)
    \/ \E a \in ProfiledAccounts : bp_error(a)
    \/ \E a \in ProfiledAccounts : bp_insufficient(a)
    \/ \E a \in ProfiledAccounts : bp_score_batch(a)
    \/ \E a \in ProfiledAccounts, avg_toxicity \in {0, 5, 10} : bp_avg_toxicity(a, avg_toxicity)
    \/ \E a \in ProfiledAccounts, topic_overlap \in {0, 3, 20} :
          bp_compute_threat_score(a, topic_overlap)
    \/ \E a \in ProfiledAccounts : bp_upsert_account_score(a)

(***************************************************************************)
(* db/models.rs ThreatTier::from_score on f64                              *)
(*                                                                         *)
(* An f64 is a finite number (in tenths of a point), NaN or an infinity.   *)
(***************************************************************************)
Finite(v) == [kind |-> "num", v |-> v]
NaN == [kind |-> "nan", v |-> 0]
Infinity == [kind |-> "inf", v |-> 0]
NegInfinity == [kind |-> "neginf", v |-> 0]

\* Scores around every tier threshold, below 0 and above 100, and the
\* values of f64 that are not numbers.
F64Samples ==
    {Finite(v) : v \in (-10 .. 10) \cup (240 .. 280) \cup (490 .. 530) \cup (740 .. 780) \cup (990 .. 1010)}
        \cup {NaN, Infinity, NegInfinity}

\* `>` in place of `>=`.
F64Gt(x, c) == x.kind = "inf" \/ (x.kind = "num" /\ x.v > c)

\* `x >= c` on f64: false whenever x is NaN.
F64Ge(x, c) == x.kind = "inf" \/ (x.kind = "num" /\ x.v >= c)

\* ThreatTier::from_score: the match arms in order.
from_score_f64(score) ==
    IF F64Ge(score, 760) THEN "High"
    ELSE IF F64Ge(score, 510) THEN "Elevated"
    ELSE IF F64Ge(score, 260) THEN "Watch"
    ELSE "Low"

(***************************************************************************)
(* toxicity/traits.rs NoopScorer                                           *)
(***************************************************************************)
MaxTexts == 3

PostTexts == {"t1", "t2", "t3", "t4", "t5"}

RECURSIVE SeqsUpTo(_, _)
SeqsUpTo(S, n) ==
    IF n = 0 THEN {<< >>}
    ELSE LET shorter == SeqsUpTo(S, n - 1)
         IN shorter \cup {Append(q, x) : q \in shorter, x \in S}

ScorerOk(value) == [ok |-> TRUE, value |-> value]
ScorerErr(message) == [ok |-> FALSE, value |-> message]

\* `anyhow::bail!("NoopScorer should never be called ..")`
noop_score_text(text) == ScorerErr("NoopScorer should never be called")

\* The trait's default score_batch, which NoopScorer does not override:
\* `for text in texts { results.push(self.score_text(text).await?); }`
\* then `Ok(results)`.
RECURSIVE noop_score_batch_from(_, _)
noop_score_batch_from(texts, results) ==
    IF texts = << >> THEN ScorerOk(results)
    ELSE LET scored == noop_score_text(Head(texts))
         IN IF scored.ok
            THEN noop_score_batch_from(Tail(texts), Append(results, scored.value))
            ELSE scored

noop_score_batch(texts) == noop_score_batch_from(texts, << >>)

call_noop_score_text(text) ==
    /\ pfCall' = [fn |-> "score_text", text |-> text]
    /\ pfResult' = noop_score_text(text)
    /\ UNCHANGED nonPfVars

call_noop_score_batch(texts) ==
    /\ pfCall' = [fn |-> "score_batch", texts |-> texts]
    /\ pfResult' = noop_score_batch(texts)
    /\ UNCHANGED nonPfVars

NoopNext ==
    \/ \E text \in PostTexts : call_noop_score_text(text)
    \/ \E texts \in SeqsUpTo(PostTexts, MaxTexts) : call_noop_score_batch(texts)

(***************************************************************************)
(* bluesky/rate_limit.rs with_retry: the delay before a retry              *)
(***************************************************************************)
\* The values `attempt` has when the backoff is computed: it is incremented
\* first, and only when the guard did not return the error.
BackoffAttempts == {att + 1 : att \in {a \in 0 .. MAX_RETRIES : ~ReturnsErr("http_429", a)}}

\* One computation of the delay, with `nanos % 500` = j.
call_backoff(att, j) ==
    /\ pfCall' = [fn |-> "backoff", attempt |-> att, jitter |-> j]
    /\ pfResult' = [backoff |-> Backoff(att), jittered_millis |-> JitteredMillis(att, j)]
    /\ UNCHANGED nonPfVars

BackoffNext == \E att \in BackoffAttempts, j \in 0 .. 499 : call_backoff(att, j)

(***************************************************************************)
(* output/mod.rs truncate_chars                                            *)
(*                                                                         *)
(* A &str is its sequence of UTF-8 bytes; a Unicode scalar is the 1 to 4   *)
(* bytes that encode it.                                                   *)
(***************************************************************************)
MaxChars == 3

\* "a", ".", "e" with acute accent (2 bytes), the ellipsis U+2026 (3
\* bytes) and an emoji (4 bytes).
ScalarSamples == {<<97>>, <<46>>, <<195, 169>>, <<226, 128, 166>>, <<240, 159, 140, 141>>}

\* The length of a UTF-8 sequence, read off its first byte.
Utf8Width(lead) ==
    IF lead < 128 THEN 1
    ELSE IF lead < 224 THEN 2
    ELSE IF lead < 240 THEN 3
    ELSE 4

\* str::chars: the scalars of a text, in order.
RECURSIVE chars(_)
chars(text) ==
    IF text = << >> THEN << >>
    ELSE LET w == Utf8Width(Head(text))
         IN <<SubSeq(text, 1, w)>> \o chars(SubSeq(text, w + 1, Len(text)))

\* Iterator::collect::<String>: the scalars written one after the other.
RECURSIVE collect(_)
collect(scalars) ==
    IF scalars = << >> THEN << >> ELSE Head(scalars) \o collect(Tail(scalars))

\* Iterator::take
take(seq, n) == SubSeq(seq, 1, Min(n, Len(seq)))

\* "..." as bytes.
ThreeDots == <<46, 46, 46>>

\* Byte slicing, `&text[..max_chars]`, in place of the scalar count.
truncate_bytes(text, max_chars) ==
    IF Len(text) <= max_chars THEN text
    ELSE SubSeq(text, 1, max_chars) \o ThreeDots

truncate_chars(text, max_chars) ==
    IF Len(chars(text)) <= max_chars THEN text
    ELSE collect(take(chars(text), max_chars)) \o ThreeDots

\* One call; the text is given by its scalars.
call_truncate_chars(scalars, max_chars) ==
    /\ pfCall' = [fn |-> "truncate_chars", scalars |-> scalars, max_chars |-> max_chars]
    /\ pfResult' = truncate_chars(collect(scalars), max_chars)
    /\ UNCHANGED nonPfVars

TruncateNext ==
    \E scalars \in SeqsUpTo(ScalarSamples, MaxChars), max_chars \in 0 .. MaxChars :
        call_truncate_chars(scalars, max_chars)

PfInit ==
    /\ pfCall = [fn |-> "none"]
    /\ pfResult = << >>

\* One call of ThreatTier::from_score.
call_from_score(score) ==
    /\ pfCall' = [fn |-> "from_score", score |-> score]
    /\ pfResult' = from_score_f64(score)
    /\ UNCHANGED nonPfVars

TierNext == \E score \in F64Samples : call_from_score(score)

(***************************************************************************)
(* bluesky/followers.rs fetch_followers, bluesky/posts.rs                  *)
(* fetch_recent_posts                                                      *)
(*                                                                         *)
(* The server answers each request with a page (a sequence of items) and   *)
(* an optional cursor, both of its own choosing.                           *)
(***************************************************************************)
MaxPage == 2
MaxWanted == 3

FetchKinds == {"fetch_followers", "fetch_recent_posts"}

\* What a page can hold: follower profiles, or feed items that are a post
\* of the account, a repost (`reason` is set) or a text under 15 chars.
PageItems(fetch) ==
    IF fetch = "fetch_followers" THEN {"follower1", "follower2"}
    ELSE {"post", "repost", "short"}

AnyPageItems == UNION {PageItems(fetch) : fetch \in FetchKinds}

\* fetch_recent_posts skips reposts and short texts; fetch_followers
\* pushes every profile.
Keeps(fetch, item) == fetch = "fetch_followers" \/ item = "post"

\* The for loop over one page: push, then `if len >= max { break; }`.
RECURSIVE PushPage(_, _, _, _)
PushPage(fetch, items, page, max) ==
    IF page = << >> THEN items
    ELSE IF ~Keeps(fetch, Head(page)) THEN PushPage(fetch, items, Tail(page), max)
    ELSE LET pushed == Append(items, Head(page))
         IN IF Len(pushed) >= max THEN pushed
            ELSE PushPage(fetch, pushed, Tail(page), max)

FetchInit ==
    /\ fePc = "idle"
    /\ feCall = [fetch |-> "none", max |-> 0]
    /\ feItems = << >>
    /\ feCursor = << >>

\* The call: `let mut items = Vec::new(); let mut cursor = None;`
fetch_begin(fetch, max) ==
    /\ fePc = "idle"
    /\ fePc' = "request"
    /\ feCall' = [fetch |-> fetch, max |-> max]
    /\ feItems' = << >>
    /\ feCursor' = << >>
    /\ UNCHANGED nonFeVars

\* One iteration of the loop: the request returned a page and a cursor.
fetch_page(page, cursor) ==
    /\ fePc = "request"
    /\ page \in SeqsUpTo(PageItems(feCall.fetch), MaxPage)
    /\ LET collected == PushPage(feCall.fetch, feItems, page, feCall.max)
       IN /\ feItems' = collected
          /\ IF Len(collected) >= feCall.max
             THEN fePc' = "done" /\ feCursor' = feCursor
             ELSE /\ feCursor' = cursor
                  /\ fePc' = IF cursor = << >> \/ page = << >> THEN "done" ELSE "request"
    /\ UNCHANGED feCall
    /\ UNCHANGED nonFeVars

\* The request failed: `.with_context(..)?`
fetch_error ==
    /\ fePc = "request"
    /\ fePc' = "failed"
    /\ UNCHANGED <<feCall, feItems, feCursor>>
    /\ UNCHANGED nonFeVars

FetchNext ==
    \/ \E fetch \in FetchKinds, max \in 0 .. MaxWanted : fetch_begin(fetch, max)
    \/ \E page \in SeqsUpTo(AnyPageItems, MaxPage), cursor \in {<< >>, <<"c1">>, <<"c2">>} :
          fetch_page(page, cursor)
    \/ fetch_error

(***************************************************************************)
(* Mutex guards and suspension points: bluesky/rate_limit.rs RateLimiter   *)
(* (std::sync::Mutex `requests` and `last_request`), db/sqlite.rs          *)
(* SqliteDatabase (tokio Mutex `conn`), toxicity/onnx.rs OnnxToxicityScorer *)
(* (std::sync::Mutex `session`, locked on a blocking thread).              *)
(*                                                                         *)
(* Each lock() and each end of a guard's scope is a step of its own, so a  *)
(* task can be seen holding a guard, waiting for one, or suspended.        *)
(***************************************************************************)
Locks == {"requests", "last_request", "conn", "session"}
NoOwner == 0

\* The thread of the blocking pool that runs the closure task t spawned.
BlockingThread(t) == NumTasks + t

\* Positions at which a task is suspended at an `.await`.
Suspended == {"delay_sleep", "window_sleep", "conn_lock", "join_lock", "join_run", "join_done"}

\* Positions inside RateLimiter::acquire.
AcquirePcs == {"last_lock", "min_delay", "delay_sleep", "requests_lock", "evict", "window_sleep", "grant_last_lock", "set_last"}

\* Positions inside RateLimiter::record_request.
RecordPcs == {"rec_requests_lock", "rec_push", "rec_last_lock", "rec_set"}

InAcquire(t) == lkPc[t] \in AcquirePcs

\* A guard that stays alive past the end of its block.
keep_guard(owner, holder, m) == owner

\* The guard goes out of scope: the mutex is unlocked.
drop_guard(owner, holder, m) ==
    IF owner[m] = holder THEN [owner EXCEPT ![m] = NoOwner] ELSE owner

LockInit ==
    /\ lkPc = [t \in Tasks |-> "idle"]
    /\ lkOwner = [m \in Locks |-> NoOwner]
    /\ lkRequests = << >>
    /\ lkLast = NoInstant
    /\ lkSleep = [t \in Tasks |-> 0]
    /\ lkBlocked = [t \in Tasks |-> FALSE]

\* Mutex::lock(): returns the guard once the mutex is free.
lock(t, holder, m, next) ==
    /\ lkOwner[m] = NoOwner
    /\ lkOwner' = [lkOwner EXCEPT ![m] = holder]
    /\ lkPc' = [lkPc EXCEPT ![t] = next]
    /\ UNCHANGED <<lkRequests, lkLast, lkSleep, lkBlocked>>
    /\ UNCHANGED nonLkVars

\* A task calls acquire().
lk_acquire(t) ==
    /\ lkPc[t] = "idle"
    /\ lkPc' = [lkPc EXCEPT ![t] = "last_lock"]
    /\ lkBlocked' = [lkBlocked EXCEPT ![t] = FALSE]
    /\ UNCHANGED <<lkOwner, lkRequests, lkLast, lkSleep>>
    /\ UNCHANGED nonLkVars

\* `let last = self.last_request.lock().unwrap();`
lk_lock_last(t) ==
    /\ lkPc[t] = "last_lock"
    /\ lock(t, t, "last_request", "min_delay")

\* The rest of the first block: compute min_delay_wait, drop the guard at the
\* end of the block, then sleep or go on to the loop.
lk_min_delay(t) ==
    /\ lkPc[t] = "min_delay"
    /\ lkOwner' = drop_guard(lkOwner, t, "last_request")
    /\ IF lkLast # NoInstant /\ lkLast < MinDelay
       THEN /\ lkPc' = [lkPc EXCEPT ![t] = "delay_sleep"]
            /\ lkSleep' = [lkSleep EXCEPT ![t] = MinDelay - lkLast]
       ELSE /\ lkPc' = [lkPc EXCEPT ![t] = "requests_lock"]
            /\ lkSleep' = lkSleep
    /\ UNCHANGED <<lkRequests, lkLast, lkBlocked>>
    /\ UNCHANGED nonLkVars

\* tokio::time::sleep(wait) has elapsed: on to the (next pass of the) loop.
lk_sleep_elapsed(t) ==
    /\ lkPc[t] \in {"delay_sleep", "window_sleep"}
    /\ lkSleep[t] = 0
    /\ lkPc' = [lkPc EXCEPT ![t] = "requests_lock"]
    /\ UNCHANGED <<lkOwner, lkRequests, lkLast, lkSleep, lkBlocked>>
    /\ UNCHANGED nonLkVars

\* `let mut requests = self.requests.lock().unwrap();`
lk_lock_requests(t) ==
    /\ lkPc[t] = "requests_lock"
    /\ lock(t, t, "requests", "evict")

\* Under the guard: evict, then push and go on to last_request, or compute
\* the wait, leave the block (the guard is dropped) and sleep.
lk_evict(t) ==
    /\ lkPc[t] = "evict"
    /\ LET kept == Evict(lkRequests) IN
       IF Len(kept) < MaxRequests
       THEN /\ lkRequests' = Append(kept, 0)
            /\ lkPc' = [lkPc EXCEPT ![t] = "grant_last_lock"]
            /\ UNCHANGED <<lkOwner, lkSleep, lkBlocked>>
       ELSE /\ lkRequests' = kept
            /\ lkOwner' = drop_guard(lkOwner, t, "requests")
            /\ lkPc' = [lkPc EXCEPT ![t] = "window_sleep"]
            /\ lkSleep' = [lkSleep EXCEPT ![t] = Max(Window - Head(kept), 0)]
            /\ lkBlocked' = [lkBlocked EXCEPT ![t] = TRUE]
    /\ UNCHANGED lkLast
    /\ UNCHANGED nonLkVars

\* `let mut last = self.last_request.lock().unwrap();` with `requests` held.
lk_lock_last_nested(t) ==
    /\ lkPc[t] = "grant_last_lock"
    /\ lock(t, t, "last_request", "set_last")

\* `*last = Some(now); None`: both guards are dropped at the end of the block
\* and acquire() returns.
lk_set_last(t) ==
    /\ lkPc[t] = "set_last"
    /\ lkLast' = 0
    /\ lkOwner' = drop_guard(drop_guard(lkOwner, t, "last_request"), t, "requests")
    /\ lkPc' = [lkPc EXCEPT ![t] = "idle"]
    /\ UNCHANGED <<lkRequests, lkSleep, lkBlocked>>
    /\ UNCHANGED nonLkVars

\* A task calls record_request().
lk_record_request(t) ==
    /\ lkPc[t] = "idle"
    /\ Len(lkRequests) + Cardinality({u \in Tasks : lkPc[u] \in RecordPcs}) < QueueCap
    /\ lkPc' = [lkPc EXCEPT ![t] = "rec_requests_lock"]
    /\ UNCHANGED <<lkOwner, lkRequests, lkLast, lkSleep, lkBlocked>>
    /\ UNCHANGED nonLkVars

lk_rec_lock_requests(t) ==
    /\ lkPc[t] = "rec_requests_lock"
    /\ lock(t, t, "requests", "rec_push")

\* `requests.push_back(now);`
lk_rec_push(t) ==
    /\ lkPc[t] = "rec_push"
    /\ lkRequests' = Append(lkRequests, 0)
    /\ lkPc' = [lkPc EXCEPT ![t] = "rec_last_lock"]
    /\ UNCHANGED <<lkOwner, lkLast, lkSleep, lkBlocked>>
    /\ UNCHANGED nonLkVars

lk_rec_lock_last(t) ==
    /\ lkPc[t] = "rec_last_lock"
    /\ lock(t, t, "last_request", "rec_set")

\* `*last = Some(now);` and the end of record_request: both guards are dropped.
lk_rec_set(t) ==
    /\ lkPc[t] = "rec_set"
    /\ lkLast' = 0
    /\ lkOwner' = drop_guard(drop_guard(lkOwner, t, "last_request"), t, "requests")
    /\ lkPc' = [lkPc EXCEPT ![t] = "idle"]
    /\ UNCHANGED <<lkRequests, lkSleep, lkBlocked>>
    /\ UNCHANGED nonLkVars

\* A method of SqliteDatabase is called: `self.conn.lock().await` is awaited.
db_call(t) ==
    /\ lkPc[t] = "idle"
    /\ lkPc' = [lkPc EXCEPT ![t] = "conn_lock"]
    /\ UNCHANGED <<lkOwner, lkRequests, lkLast, lkSleep, lkBlocked>>
    /\ UNCHANGED nonLkVars

\* The tokio mutex grants the guard.
db_locked(t) ==
    /\ lkPc[t] = "conn_lock"
    /\ lock(t, t, "conn", "conn_query")

\* The one synchronous queries::.. call; the method returns and drops the guard.
db_query(t) ==
    /\ lkPc[t] = "conn_query"
    /\ lkOwner' = drop_guard(lkOwner, t, "conn")
    /\ lkPc' = [lkPc EXCEPT ![t] = "idle"]
    /\ UNCHANGED <<lkRequests, lkLast, lkSleep, lkBlocked>>
    /\ UNCHANGED nonLkVars

\* score_batch: the closure is handed to spawn_blocking and the task awaits
\* its JoinHandle.
score_batch(t) ==
    /\ lkPc[t] = "idle"
    /\ lkPc' = [lkPc EXCEPT ![t] = "join_lock"]
    /\ UNCHANGED <<lkOwner, lkRequests, lkLast, lkSleep, lkBlocked>>
    /\ UNCHANGED nonLkVars

\* On the blocking thread: `session.lock()`.
session_lock(t) ==
    /\ lkPc[t] = "join_lock"
    /\ lock(t, BlockingThread(t), "session", "join_run")

\* On the blocking thread: session.run(..), then the end of the inner block.
session_run(t) ==
    /\ lkPc[t] = "join_run"
    /\ lkOwner' = drop_guard(lkOwner, BlockingThread(t), "session")
    /\ lkPc' = [lkPc EXCEPT ![t] = "join_done"]
    /\ UNCHANGED <<lkRequests, lkLast, lkSleep, lkBlocked>>
    /\ UNCHANGED nonLkVars

\* The closure has returned: `.await` on the JoinHandle completes.
score_batch_joined(t) ==
    /\ lkPc[t] = "join_done"
    /\ lkPc' = [lkPc EXCEPT ![t] = "idle"]
    /\ UNCHANGED <<lkOwner, lkRequests, lkLast, lkSleep, lkBlocked>>
    /\ UNCHANGED nonLkVars

\* One clock tick: every Instant is a tick older, every sleep a tick shorter.
LockTick ==
    /\ lkRequests' = [i \in DOMAIN lkRequests |-> Aged(lkRequests[i], Window + 1)]
    /\ lkLast' = Aged(lkLast, MinDelay)
    /\ lkSleep' = [t \in Tasks |-> Max(lkSleep[t] - 1, 0)]
    /\ UNCHANGED <<lkPc, lkOwner, lkBlocked>>
    /\ UNCHANGED nonLkVars

\* A step of task t inside acquire() or record_request() other than a lock().
LimiterWork(t) ==
    \/ lk_min_delay(t)
    \/ lk_sleep_elapsed(t)
    \/ lk_evict(t)
    \/ lk_set_last(t)
    \/ lk_rec_push(t)
    \/ lk_rec_set(t)

\* A lock() of task t on one of the limiter's two mutexes.
LimiterLock(t) ==
    \/ lk_lock_last(t)
    \/ lk_lock_requests(t)
    \/ lk_lock_last_nested(t)
    \/ lk_rec_lock_requests(t)
    \/ lk_rec_lock_last(t)

LimiterLockNext ==
    \/ \E t \in Tasks : lk_acquire(t)
    \/ \E t \in Tasks : lk_record_request(t)
    \/ \E t \in Tasks : LimiterWork(t)
    \/ \E t \in Tasks : LimiterLock(t)
    \/ LockTick

LockNext ==
    \/ LimiterLockNext
    \/ \E t \in Tasks : db_call(t)
    \/ \E t \in Tasks : db_locked(t)
    \/ \E t \in Tasks : db_query(t)
    \/ \E t \in Tasks : score_batch(t)
    \/ \E t \in Tasks : session_lock(t)
    \/ \E t \in Tasks : session_run(t)
    \/ \E t \in Tasks : score_batch_joined(t)

Init ==
    /\ ScanInit /\ LimiterInit /\ RetryInit /\ PipelineInit /\ PgInit /\ SqInit
    /\ TxInit
    /\ StorageInit
    /\ PileOnInit
    /\ PileOnScanInit
    /\ ScoringInit
    /\ ProfileInit
    /\ PfInit
    /\ FetchInit
    /\ LockInit

SpecLimiter == Init /\ [][LimiterNext]_vars

SpecRetry == Init /\ [][RetryNext]_vars

SpecPipeline == Init /\ [][PipelineNext]_vars

SpecFanOut == Init /\ [][PipelineNext \/ SweepNext]_vars

SpecMigratePg == Init /\ [][PgNext]_vars

SpecMigrateSqlite == Init /\ [][SqNext]_vars

SpecToxicityLimiter == Init /\ [][TxNext]_vars

SpecStorage == Init /\ [][StorageNext]_vars

SpecPileOn == Init /\ [][PileOnNext]_vars

SpecPileOnScan == Init /\ [][PileOnScanNext]_vars

SpecScoring == Init /\ [][ScoringNext]_vars

SpecProfile == Init /\ [][ProfileNext]_vars

\* The runtime keeps polling a spawned task: a task that can take a step
\* eventually takes one.
SpecScanFair == Init /\ [][ScanNext]_vars /\ WF_vars(ScanJobStep)

SpecTier == Init /\ [][TierNext]_vars

SpecNoop == Init /\ [][NoopNext]_vars

SpecBackoff == Init /\ [][BackoffNext]_vars

SpecTruncate == Init /\ [][TruncateNext]_vars

\* The server answers every request: a pending request does not wait forever.
SpecFetch == Init /\ [][FetchNext]_vars /\ WF_vars(FetchNext)

SpecLocks == Init /\ [][LockNext]_vars

\* Time passes, the runtime keeps polling a task that can go on, and a thread
\* waiting in Mutex::lock() gets the mutex if it is free again and again.
\* Nothing obliges a caller to call.
LimiterFairness ==
    /\ WF_vars(LockTick)
    /\ \A t \in Tasks : WF_vars(LimiterWork(t)) /\ SF_vars(LimiterLock(t))

SpecLimiterLocks == Init /\ [][LimiterLockNext]_vars /\ LimiterFairness

\* C2: within any rolling interval of length `window`, acquire() grants at most
\* `max_requests` acquisitions, whatever the interleaving of the callers.
\* grantAges holds exactly the grants of the window that ends now.
C2_WindowLimit == Len(grantAges) <= MaxRequests

\* The window is full and a caller is suspended until the oldest grant expires.
C2_Witness ==
    /\ Len(grantAges) = MaxRequests
    /\ \E t \in Tasks : taskPc[t] = "window_sleep" /\ sleepLeft[t] > 0

\* C3: two consecutive grants of one shared limiter are at least `min_delay`
\* apart, also when several tasks call acquire() concurrently.
C3_MinDelayBetweenGrants == lastGap = NoInstant \/ lastGap >= MinDelay

SpecScan == Init /\ [][ScanNext]_vars

(***************************************************************************)
(* C1: at most one scan job runs at any time; a trigger received while     *)
(* `running` is set is answered 409 and spawns nothing, and a trigger      *)
(* received while it is clear is answered 202 and spawns exactly one job.  *)
(***************************************************************************)
TriggerAnswered(c) == response[c] = 0 /\ response'[c] # 0

C1_TriggerStep ==
    \A c \in Clients :
        TriggerAnswered(c) =>
            IF running
            THEN /\ response'[c] = 409
                 /\ jobPc' = jobPc
                 /\ spawned' = spawned
            ELSE /\ response'[c] = 202
                 /\ spawned' = spawned + 1
                 /\ Cardinality(ScanJobsRunning') = Cardinality(ScanJobsRunning) + 1

C4_BoundedRetries ==
    /\ calls <= MAX_RETRIES + 1
    /\ (calls = MAX_RETRIES + 1 /\ taskPc[RetryCaller] # "operation")
           => retryResult \in {"ok", "err"}
    /\ (retryResult = "err" /\ onlyRateLimited)
           => /\ calls = MAX_RETRIES + 1
              /\ retryError = lastOutcome

\* Six invocations, all rate limited, and the call has returned the error.
C4_Witness ==
    /\ calls = MAX_RETRIES + 1
    /\ onlyRateLimited
    /\ retryResult = "err"
    /\ backoffs = MAX_RETRIES

\* The sample errors whose text matches the claim's pattern, decided by hand:
\* "HTTP 429", "Rate Limit", "XRateLimit" match; "connection refused" and
\* "rate-limit 42" do not.
MatchesPattern == {"http_429", "rate_limit_mixed_case", "ratelimit_joined"}

\* C5: a backoff (and so a further invocation) follows only an error that
\* matches the rate-limit pattern; after an invocation fails with any other
\* error the call has already returned that error, without sleeping.
C5_OnlyRateLimitRetried ==
    /\ taskPc[RetryCaller] = "backoff" => lastOutcome \in MatchesPattern
    /\ (lastOutcome \in ErrorIds \ MatchesPattern)
           => /\ retryResult = "err"
              /\ retryError = lastOutcome
              /\ taskPc[RetryCaller] = "idle"
              /\ backoffs = calls - 1

\* A non-matching error ended the call after earlier rate-limited attempts.
C5_Witness ==
    /\ retryResult = "err"
    /\ retryError = "near_miss"
    /\ calls = 3
    /\ backoffs = 2

(***************************************************************************)
(* Properties of the amplification pipeline                                *)
(***************************************************************************)
ScanEnded == pipePc \in {"done", "failed"}

\* The follower analysis of every quote event either ran to its end or was
\* skipped because that amplifier's followers could not be fetched.
AllAmplifiersProcessed ==
    \A i \in 1..Len(quote_events(events)) :
        i \in analysed \/ <<"followers", i>> \in skipped

BuildFailed(d) == <<"err", d>> \in skipped \/ <<"err_panic", d>> \in skipped

\* C6: each score is written as it arrives. The stream yields no further
\* result while one is unhandled, so at every point of the scan (a crash
\* included) every score that has arrived is in storage, except the one
\* being written at that very moment and one whose write returned an error.
C6_PersistedAsArrived ==
    /\ Len(arrived) <= 1
    /\ \A d \in arrivedOk :
          \/ arrived # << >> /\ Head(arrived).did = d
          \/ d \in writeFailed
          \/ d \in persisted /\ account_scores[d] = [age |-> 0]

\* A crash with a build of the batch still in progress and an earlier score
\* of the same scan already in storage.
C6_Witness ==
    /\ pipePc = "crashed"
    /\ in_progress # {}
    /\ arrived = << >>
    /\ \E d \in arrivedOk : d \in persisted /\ account_scores[d] = [age |-> 0]

\* C7: a build that panics or returns an error is an Err for that account
\* only. The panic never leaves the fan-out, the scan fails only on a
\* storage error, and in a scan that reaches its end every selected account
\* was built and every build that returned a score has it persisted.
C7_BuildFailureIsolated ==
    /\ pipePc # "panicked"
    /\ pipePc = "failed" => storageFailed
    /\ pipePc = "done" =>
          /\ started = selected
          /\ arrivedOk \subseteq persisted
          /\ \A d \in started : d \in arrivedOk \/ BuildFailed(d)

\* One build of the first batch panicked, the other account of that batch
\* was persisted, and the scan went on to its end.
C7_Witness ==
    /\ pipePc = "done"
    /\ <<"err_panic", "f1">> \in skipped
    /\ <<"followers", 2>> \in skipped
    /\ "f2" \in persisted
    /\ accounts_scored = 1

\* C8: a failed score write fails that account's persistence only: when the
\* scan has ended, no build of the fan-out was left unfinished or unhandled
\* and every amplifier was processed.
C8_WriteFailureConfined ==
    (ScanEnded /\ writeFailed # {}) =>
        /\ pending = << >>
        /\ in_progress = {}
        /\ arrived = << >>
        /\ AllAmplifiersProcessed

\* C9: a failed backlink query, a failed fetch or scoring of a quote's text
\* and a failed follower fetch are skipped. The scan fails only on a storage
\* error, and a scan that reaches its end has stored every event of every
\* backlink query that succeeded and has processed every amplifier.
C9_ConfinedFailuresSkipped ==
    /\ pipePc = "failed" => storageFailed
    /\ pipePc = "done" =>
          /\ stored = DOMAIN events
          /\ <<"posts", 0>> \notin skipped =>
                \A q \in 1..NumQueries :
                   <<"backlinks", q>> \notin skipped =>
                      LET records == Backlinks(QuerySubject(q), QuerySource(q)) IN
                      \A k \in DOMAIN records :
                         \E i \in stored :
                            /\ events[i].amplifier_post_uri = AmpUri(records[k])
                            /\ events[i].event_type = QueryKind(q)
          /\ analyze_followers => AllAmplifiersProcessed

\* The repost query, the text of the first quote, the scoring of the second
\* quote's text and the first amplifier's follower fetch all failed; both
\* quotes were stored and the second amplifier was analysed.
C9_Witness ==
    /\ pipePc = "done"
    /\ {<<"backlinks", 2>>, <<"text", 1>>, <<"score", 2>>, <<"followers", 1>>}
          \subseteq skipped
    /\ stored = {1, 2}
    /\ 2 \in analysed
    /\ persisted # {}

\* C10: no two rows of amplification_events have the same
\* (amplifier post URI, event kind).
C10_UniqueEvents ==
    \A i, j \in DOMAIN amplification_events :
        (/\ amplification_events[i].amplifier_post_uri =
               amplification_events[j].amplifier_post_uri
         /\ amplification_events[i].event_type = amplification_events[j].event_type)
        => i = j

(***************************************************************************)
(* Properties of the migrations                                            *)
(***************************************************************************)
\* C11: each migration is applied exactly once. The SQL of a migration is
\* never run against a database that already records its version, and a
\* startup that succeeded leaves every migration applied and recorded.
C11_AppliedExactlyOnce ==
    /\ pgRanRecorded = {}
    /\ \A p \in Procs :
          pgPc[p] = "returned_ok" => pgRecorded = Migrations /\ pgSchema = Migrations

\* A process that waits for the advisory lock goes on only when no session
\* holds it.
C12_GrantStep ==
    \A p \in Procs :
        (pgPc[p] = "lock_wait" /\ pgPc'[p] = "ensure_table") => pgLockHolder = NoSession

\* C12: the advisory lock serializes concurrent startups. At no time are
\* two processes inside the migration sequence, and a waiting process
\* proceeds only after the holder released the lock.
C12_MigrationsSerialized ==
    /\ [](Cardinality({p \in Procs : pgPc[p] \in MigrationSequence}) <= 1)
    /\ [][C12_GrantStep]_vars

\* One process is inside the migration sequence while another waits.
C12_Witness ==
    \E p, q \in Procs :
        /\ pgPc[p] \in MigrationSequence
        /\ pgPc[q] = "lock_wait"
        /\ pgLockHolder = lock_conn(p)

\* C13: the advisory lock is released on the connection it was acquired on,
\* and no process leaves run_migrations with the lock still held, whether
\* the migrations succeeded or failed.
C13_LockReleasedOnSameConnection ==
    \A p \in Procs :
        /\ pgPc[p] \in {"returned_ok", "returned_err"} => pgLockHolder[1] # p
        /\ pgUnlockedOn[p] # NoSession => pgUnlockedOn[p] = pgLockedOn[p]

\* A process whose migration failed ran the unlock statement on its
\* lock_conn and returned the error with the lock free.
C13_Witness ==
    \E p \in Procs :
        /\ pgPc[p] = "returned_err"
        /\ pgResult[p] = "err"
        /\ pgLockedOn[p] = lock_conn(p)
        /\ pgUnlockedOn[p] = lock_conn(p)
        /\ pgLockHolder = NoSession

C15_SweepScoresLikeAmplification ==
    command = "sweep" =>
        /\ Len(arrived) <= 1
        /\ \A d \in arrivedOk :
              \/ arrived # << >> /\ Head(arrived).did = d
              \/ d \in writeFailed
              \/ d \in persisted
        /\ pipePc # "panicked"

C17_ProtectedNeverScored ==
    /\ ProtectedDid \notin started
    /\ account_scores[ProtectedDid] = NoRow

\* C18: fetch_followers is called for quote events only, and accounts are
\* built only after such a call.
C18_RepostsNeverAnalysed ==
    /\ \A e \in fetchedFor : e.event_type = "quote"
    /\ started # {} => fetchedFor # {}

\* A scan that stored a repost and analysed the followers of a quote's
\* amplifier.
C18_Witness ==
    /\ command = "scan"
    /\ pipePc = "done"
    /\ \E i \in stored : events[i].event_type = "repost"
    /\ fetchedFor # {}
    /\ persisted # {}

\* C19: at every poll of a fan-out's stream at most `concurrency` builds
\* are in progress.
C19_BoundedConcurrency ==
    /\ in_flight <= Concurrency
    /\ Cardinality(in_progress) <= Concurrency

\* The buffer is full while accounts are still waiting to be built.
C19_Witness ==
    /\ in_flight = Concurrency
    /\ pending # << >>

\* The phase of the scan state machine a job is in. "failing" is run_scan
\* having returned Err before launch_scan has written the status; a job whose
\* task panicked has stopped without reaching a terminal phase.
ScanPhase(pc) ==
    CASE pc = "unspawned" -> "Idle"
      [] pc \in {"load_model", "load_fingerprint", "load_embedding"} -> "LoadingFingerprint"
      [] pc = "fetch_events" -> "FetchingEvents"
      [] pc \in {"score_amplifiers", "pipeline"} -> "ScoringAmplifiers"
      [] pc = "done" -> "Done"
      [] pc \in {"failing", "failed"} -> "Failed"
      [] OTHER -> "Stopped"

RunningPhases == {"LoadingFingerprint", "FetchingEvents", "ScoringAmplifiers"}

PhaseTransitions ==
    {<<"Idle", "LoadingFingerprint">>,
     <<"LoadingFingerprint", "FetchingEvents">>,
     <<"FetchingEvents", "ScoringAmplifiers">>,
     <<"ScoringAmplifiers", "Done">>}
    \cup {<<p, "Failed">> : p \in RunningPhases}
    \cup {<<p, "Stopped">> : p \in RunningPhases \cup {"Failed"}}

TriggerAccepted ==
    /\ spawned' = spawned + 1
    /\ \E c \in Clients : response[c] = 0 /\ response'[c] = 202

C20_PhaseStep ==
    /\ \A j \in JobIds :
          \/ ScanPhase(jobPc'[j]) = ScanPhase(jobPc[j])
          \/ /\ <<ScanPhase(jobPc[j]), ScanPhase(jobPc'[j])>> \in PhaseTransitions
             /\ ScanPhase(jobPc[j]) = "Idle" => TriggerAccepted
    /\ ~running /\ running' => TriggerAccepted
    /\ ~running /\ ~running' => UNCHANGED <<progress_message, last_error, jobPc>>

C20_Status ==
    /\ \A j \in JobIds :
          ScanPhase(jobPc[j]) \in RunningPhases => running /\ j = spawned
    /\ spawned > 0 /\ jobPc[spawned] = "done" =>
          ~running /\ last_error = "none" /\ progress_message = "Completed"
    /\ spawned > 0 /\ jobPc[spawned] = "failed" =>
          ~running /\ last_error # "none" /\ progress_message # "Completed"

C21_GrantsOneIntervalApart == txLastGap = NoInstant \/ txLastGap >= interval

\* The columns of a row that upsert_account_score takes from its argument.
GivenColumns(r) ==
    [did |-> r.did, threat_score |-> r.threat_score, threat_tier |-> r.threat_tier,
     posts_analyzed |-> r.posts_analyzed, behavioral_signals |-> r.behavioral_signals]

UpsertStep ==
    /\ stCall'.seq # stCall.seq
    /\ stCall'.op = "upsert_account_score"

C22_UpsertWritesAsGiven ==
    UpsertStep =>
        \A x \in stArg' :
            /\ stCall'.result = "ok"
            /\ Cardinality({r \in stScores' : r.did = x.did}) = 1
            /\ \A r \in stScores' : r.did = x.did => GivenColumns(r) = x /\ r.scored_at = 0
            /\ {r \in stScores' : r.did # x.did} = {r \in stScores : r.did # x.did}

C22_SecondUpsertChangesNothing ==
    UpsertStep /\ stCall.op = "upsert_account_score" /\ stArg' = stArg =>
        {GivenColumns(r) : r \in stScores'} = {GivenColumns(r) : r \in stScores}

C23_SaveEmbeddingNeedsFingerprint ==
    stCall.op = "save_embedding" /\ stFingerprint = NoFingerprint =>
        stCall.result = "err"

\* The tier the thresholds {26, 51, 76} give a score (in tenths).
ThresholdTier(s) ==
    <<"Low", "Watch", "Elevated", "High">>[Cardinality({t \in {260, 510, 760} : s >= t}) + 1]

\* C24: every row get_ranked_threats returns carries the tier the thresholds
\* give its stored score, whatever tier string is stored with it, and every
\* stored row with a score of at least min_score is returned.
C24_TierRecomputedOnRead ==
    stCall.op = "get_ranked_threats" =>
        /\ \A i \in DOMAIN stReturned :
              /\ stReturned[i].threat_tier = <<ThresholdTier(stReturned[i].threat_score[1])>>
              /\ \E r \in stScores :
                    r.did = stReturned[i].did /\ r.threat_score = stReturned[i].threat_score
        /\ \A r \in stScores, a \in stArg :
              r.threat_score # << >> /\ r.threat_score[1] >= a.min_score =>
                  \E i \in DOMAIN stReturned : stReturned[i].did = r.did

\* A read returned a row on a threshold whose stored tier string is another
\* tier, and a row stored without a tier string.
C24_Witness ==
    /\ stCall.op = "get_ranked_threats"
    /\ \E r \in stScores, i \in DOMAIN stReturned :
          /\ r.did = stReturned[i].did
          /\ r.threat_score = <<260>>
          /\ r.threat_tier = <<"Low">>
          /\ stReturned[i].threat_tier = <<"Watch">>
    /\ \E r \in stScores, i \in DOMAIN stReturned :
          /\ r.did = stReturned[i].did
          /\ r.threat_tier = << >>
          /\ stReturned[i].threat_tier = <<"Elevated">>

\* The amplifiers of every cluster among events given as (did, uri, instant):
\* for a 24-hour window that starts at one of the events, the amplifiers
\* with an event on that post inside the window, when they are at least
\* PILE_ON_THRESHOLD.
WindowAmplifiers(points, p) ==
    {q.did : q \in {r \in points : /\ r.uri = p.uri
                                   /\ r.instant >= p.instant
                                   /\ r.instant <= p.instant + PILE_ON_WINDOW_SECS}}

ClusterAmplifiers(points) ==
    UNION {WindowAmplifiers(points, p) : p \in {r \in points :
               Cardinality(WindowAmplifiers(points, r)) >= PILE_ON_THRESHOLD}}

StoredPoints == {[did |-> r.did, uri |-> r.uri, instant |-> r.detected_at] : r \in poTable}

InputPoints ==
    {[did |-> poInput[k].did, uri |-> poInput[k].uri,
      instant |-> poInput[k].ts.clock - poInput[k].ts.offset] : k \in DOMAIN poInput}

\* C25: when storage holds events by at least 5 distinct amplifiers on one
\* post within 24 hours, the detector run on what get_events_for_pile_on
\* returned yields those amplifiers.
C25_StoredPileOnDetected ==
    poTuples # << >> => ClusterAmplifiers(StoredPoints) \subseteq poDetected

\* C26: every amplifier of a cluster of at least 5 distinct amplifiers on
\* one post within 24 hours is in the detector's result, for any input.
C26_ClusterIsReturned ==
    poDone => ClusterAmplifiers(InputPoints) \subseteq poResult

\* C27: the detector returns the empty set when no post has 5 distinct
\* amplifiers within any 24-hour window.
C27_NoClusterNoResult ==
    poDone /\ ClusterAmplifiers(InputPoints) = {} => poResult = {}

\* C28: the benign gate fires exactly when quote_ratio < 0.15, reply_ratio <
\* 0.30, pile_on is false and avg_engagement > median_engagement; and when
\* it fires the final score is at most 12.0.
C28_BenignGate ==
    \A sig \in scSignals, out \in scFinal :
        /\ out.benign_gate <=> /\ sig.quote_ratio < 15
                               /\ sig.reply_ratio < 30
                               /\ sig.pile_on = FALSE
                               /\ sig.avg_engagement > sig.median_engagement
        /\ out.benign_gate => out.score <= FinalPoints(12)

\* The gate fired on a score above 12 and brought it down to 12.
C28_Witness ==
    \E raw \in scThreat, sig \in scSignals, out \in scFinal :
        /\ raw > Points(12)
        /\ sig.quote_ratio = 14
        /\ sig.reply_ratio = 29
        /\ out.benign_gate
        /\ out.score = FinalPoints(12)

InsufficientDataRow(a) ==
    \A r \in bpTable :
        r.did = a => /\ r.threat_tier = <<"Insufficient Data">>
                     /\ r.toxicity_score = << >>
                     /\ r.topic_overlap = << >>
                     /\ r.threat_score = << >>

\* C30: an account whose fetched sample has fewer than 5 posts is never
\* handed to the toxicity scorer or to the scoring formula, and what is
\* persisted for it has the tier Insufficient Data and null toxicity,
\* overlap and threat score.
C30_InsufficientData ==
    \A a \in ProfiledAccounts :
        (bpPosts[a] # << >> /\ bpPosts[a][1] < 5) =>
            /\ a \notin bpScorerCalls
            /\ a \notin bpFormulaCalls
            /\ bpPc[a] \in {"fetched", "returned", "persisted"}
            /\ InsufficientDataRow(a)
            /\ bpPc[a] = "persisted" => \E r \in bpTable : r.did = a

\* An account with 4 posts was persisted, next to one with 5 posts that
\* went through the scorer and the formula.
C30_Witness ==
    \E a, b \in ProfiledAccounts :
        /\ bpPosts[a] = <<4>>
        /\ bpPc[a] = "persisted"
        /\ \E r \in bpTable : r.did = a /\ r.posts_analyzed = 4
        /\ bpPosts[b] = <<5>>
        /\ bpPc[b] = "persisted"
        /\ b \in bpFormulaCalls

C32_NoopAlwaysErrors ==
    pfCall.fn \in {"score_text", "score_batch"} => ~pfResult.ok

\* C33: every paginated fetch terminates, whatever pages the server
\* returns, and returns at most max items.
C33_FetchTerminatesWithinMax ==
    /\ (fePc = "request") ~> (fePc \in {"done", "failed"})
    /\ [](fePc = "done" => Len(feItems) <= feCall.max)

\* C34: the delay before the retry that follows failed attempt number
\* `attempt` is min(2 s * 2^attempt, 60 s) scaled by a jitter factor within
\* +/-25%; the delay before jitter never exceeds 60 s.
C34_BackoffDelay ==
    pfCall.fn = "backoff" =>
        LET seconds == IF 2 * (2 ^ pfCall.attempt) < 60 THEN 2 * (2 ^ pfCall.attempt) ELSE 60
        IN /\ pfCall.attempt \in 1 .. 5
           /\ pfResult.backoff = seconds
           /\ pfResult.backoff <= 60
           /\ 4 * pfResult.jittered_millis >= 3 * 1000 * seconds
           /\ 4 * pfResult.jittered_millis <= 5 * 1000 * seconds

\* The fifth failed attempt: 2 * 2^5 = 64 s is cut to 60 s.
C34_Witness ==
    /\ pfCall.fn = "backoff"
    /\ pfCall.attempt = 5
    /\ pfResult.backoff = 60
    /\ pfResult.jittered_millis = 60 * 1249

\* The first n scalars of the text of the call, as bytes.
FirstScalars(n) == collect(SubSeq(pfCall.scalars, 1, n))

C36_RunningEventuallyCleared == running ~> ~running

\* C37: no task holds a guard of the rate limiter's window state, of the
\* storage connection or of the model session while it is suspended at an
\* await (a sleep, the wait for the connection, the wait for the blocking
\* closure): every guard is dropped before the suspension point.
C37_NoGuardAcrossAwait ==
    \A t \in Tasks : lkPc[t] \in Suspended => \A m \in Locks : lkOwner[m] # t

\* A task sleeps on a full window, having held `requests` to find that out,
\* while another task holds that mutex.
C37_Witness ==
    \E t \in Tasks, u \in Tasks :
        /\ t # u
        /\ lkPc[t] = "window_sleep" /\ lkSleep[t] > 0
        /\ lkOwner["requests"] = u

\* C38 as stated: every call of acquire() returns, whatever the other
\* callers of acquire() and record_request() do.
C38_AcquireReturns == \A t \in Tasks : InAcquire(t) ~> (lkPc[t] = "idle")

\* Another caller adds a request to the window.
PushedByOther(t) ==
    \E u \in Tasks \ {t} :
        \/ lkPc[u] = "rec_push" /\ lkPc'[u] = "rec_last_lock"
        \/ lkPc[u] = "evict" /\ lkPc'[u] = "grant_last_lock"

\* C38, amended: a call of acquire() returns if the other callers eventually
\* stop adding requests to the window; no caller deadlocks on the two mutexes.
C38_AcquireReturnsOnceOthersStop ==
    \A t \in Tasks : (<>[][~PushedByOther(t)]_vars) => (InAcquire(t) ~> (lkPc[t] = "idle"))

\* A caller that was put to sleep by a full window has found room and is
\* about to return, while the other task is inside acquire() as well.
C38_Witness ==
    \E t \in Tasks, u \in Tasks :
        /\ t # u
        /\ lkPc[t] = "set_last" /\ lkBlocked[t]
        /\ InAcquire(u)

\* The accounts fetch_followers hands to the stream in this step.
NewlySelected == IF pipePc = "followers" THEN {pending'[i] : i \in DOMAIN pending'} ELSE {}

\* handle_result writes the score at the head of `arrived` in this step.
WritesScore == pipePc = "stream" /\ accounts_scored' = accounts_scored + 1

Handled(did) ==
    did \in persisted \/ \E kind \in {"err", "err_panic"} : <<kind, did>> \in skipped

\* C40: a fan-out that has ended (the scan or the sweep has returned, or has
\* unwound) has handled each selected stale account once, its score written
\* or its failure logged and skipped, and the number of accounts scored it
\* returns is the number of scores the run has written.
C40_EverySelectedHandledOnce ==
    pipePc \in {"done", "failed", "panicked"} =>
        /\ \A did \in selected : Handled(did)
        /\ accounts_scored = Cardinality(persisted)

====
